---- MODULE Spec2Model ----
(***************************************************************************)
(* Request pipeline of the chat assistant: the fixed-window and sliding-   *)
(* window rate limiters and their middleware (src/lib/api-utils.ts,        *)
(* lines 367-643), the handler wrapper createApiHandler (same file, lines  *)
(* 152-301) and the error responder handleApiError (src/API_DOCS.md, lines *)
(* 406-733, the error-handling module).                                    *)
(*                                                                         *)
(* Time is Date.now() in milliseconds.  The clock moves in steps of half a *)
(* second and a limiter's window is a few steps long.                      *)
(***************************************************************************)
EXTENDS Integers, Sequences, FiniteSets, Bags, TLC

\* ------------------------------------------------------------------ bounds
MaxTime == 4          \* the clock makes at most MaxTime steps
MaxRequests == 3      \* maxRequests of a limiter is drawn from 1..MaxRequests
MaxWindow == 2        \* windowMs of a limiter is 1..MaxWindow steps
MaxMessageParts == 3  \* an error message has at most MaxMessageParts parts
MaxAttempts == 3      \* maxRetries of withRetry is drawn from 0..MaxAttempts
MaxDelay == 2         \* delay of withRetry is 1..MaxDelay steps
MaxInFlight == 2      \* requests being handled at the same time
MaxChecks == 4        \* checks of requests that complete later, in one run
MaxStrLen == 3        \* a validated string has at most MaxStrLen characters
MaxQueryLen == 2      \* a query value has at most MaxQueryLen characters

\* --------------------------------------------------------------------- time
MsPerSecond == 1000
Step == MsPerSecond \div 2
Times == {n * Step : n \in 0..MaxTime}
Windows == {n * Step : n \in 1..MaxWindow}

\* ------------------------------------------------------------------ inputs
Clients == {"10.0.0.1", "10.0.0.2"}

\* The x-forwarded-for header as the list of its comma-separated entries;
\* the empty list is the absent (or empty, hence falsy) header.
ForwardedValues == {<<>>, <<"10.0.0.1">>, <<"10.0.0.2", "10.0.0.1">>}

Limiters == {"apiLimiter", "chatLimiter", "authLimiter"}

VARIABLES
  now,         \* Date.now()
  config,      \* RateLimiter.config of each limiter instance
  store,       \* the module-level Map<string, RateLimitRecord>
  lastCheck,   \* the last RateLimiter.check call: its arguments and its result
  window,      \* history: per key, the fixed window the key is in
  alone,       \* history: per limiter, the table it would hold were it alone
  unswept,     \* history: the table had no sweep ever run, and its answer
  slidingConfig, \* SlidingWindowRateLimiter.config
  requests,    \* SlidingWindowRateLimiter.requests: Map<string, number[]>
  lastSliding, \* the last SlidingWindowRateLimiter.check call and its result
  admissions,  \* history: per key and time, the sliding checks admitted then
  thrown,      \* the value last handed to handleApiError
  errResp,     \* the Response handleApiError returned for it
  pc,          \* where the wrapped handler's invocation stands
  cur,         \* the invocation: the route's options and the request
  ran,         \* history: the stages that ran for the invocation
  resp,        \* the Response the wrapped handler returned for it
  retry,       \* the call of withRetry: its arguments, locals and history
  flight,      \* the requests in flight: where each stands in its check
  skip,        \* the checked requests not yet completed (a bag), and the history of
               \* each key's window for a limiter with skip flags
  validation,  \* the last call of a validator: its arguments and what it threw
  wrapped,     \* the last call of a function wrapped by asyncHandler
  parsed,      \* the last call of parseRequestBody
  paged,       \* the arguments and the result of a call of getPaginationParams
  hook         \* a component using useRequireAuth: its renders and effects

limiterVars == <<config, store, lastCheck, window, alone, unswept>>
slidingVars == <<slidingConfig, requests, lastSliding, admissions>>
errorVars == <<thrown, errResp>>
handlerVars == <<pc, cur, ran, resp>>
retryVars == <<retry>>
flightVars == <<flight>>
skipVars == <<skip>>
validateVars == <<validation>>
utilVars == <<wrapped, parsed, paged, hook>>

\* no Response (yet): null where the code has Response | null
NoResponse == [status |-> 0, headers |-> <<>>, body |-> [none |-> TRUE]]

\* ------------------------------------------------------- fixed-window limiter

\* function defaultKeyGenerator(request): `rate_limit:${ip}`
defaultKeyGenerator(request) ==
  LET forwarded == request.forwarded
      ip == IF forwarded # <<>> THEN forwarded[1] ELSE request.ip
  IN  <<"rate_limit", ip>>

Keys == {<<"rate_limit", c>> : c \in Clients}

LimiterRequests == [forwarded : ForwardedValues, ip : Clients]

\* Map.set and Map.delete on a map held as a function over its present keys
MapSet(m, k, v) == [x \in DOMAIN m \cup {k} |-> IF x = k THEN v ELSE m[x]]
MapDelete(m, ks) == [x \in DOMAIN m \ ks |-> m[x]]

\* function cleanup(): delete every record with record.resetTime < now
cleanupKeepsAll(s, t) == s

cleanupInclusive(s, t) == MapDelete(s, {k \in DOMAIN s : s[k].resetTime <= t})

cleanup(s, t) == MapDelete(s, {k \in DOMAIN s : s[k].resetTime < t})

\* RateLimiter.check after cleanup(): the record it works on, the decision
\* and the record it writes back (written only when allowed).
CheckOutcomeCountsItself(cfg, s, key, t) ==
  LET record == IF key \notin DOMAIN s \/ s[key].resetTime < t
                THEN [count |-> 0, resetTime |-> t + cfg.windowMs]
                ELSE s[key]
      allowed == record.count < cfg.maxRequests
      m == cfg.maxRequests - record.count
  IN  [allowed   |-> allowed,
       remaining |-> IF m > 0 THEN m ELSE 0,
       resetTime |-> record.resetTime,
       written   |-> [count |-> record.count + 1, resetTime |-> record.resetTime]]

CheckOutcomeLe(cfg, s, key, t) ==
  LET record == IF key \notin DOMAIN s \/ s[key].resetTime < t
                THEN [count |-> 0, resetTime |-> t + cfg.windowMs]
                ELSE s[key]
      allowed == record.count <= cfg.maxRequests
      m == cfg.maxRequests - record.count - 1
  IN  [allowed   |-> allowed,
       remaining |-> IF m > 0 THEN m ELSE 0,
       resetTime |-> record.resetTime,
       written   |-> [count |-> record.count + 1, resetTime |-> record.resetTime]]

CheckOutcomeNoWindow(cfg, s, key, t) ==
  LET record == IF key \notin DOMAIN s \/ s[key].resetTime < t
                THEN [count |-> 0, resetTime |-> cfg.windowMs]
                ELSE s[key]
      allowed == record.count < cfg.maxRequests
      m == cfg.maxRequests - record.count - 1
  IN  [allowed   |-> allowed,
       remaining |-> IF m > 0 THEN m ELSE 0,
       resetTime |-> record.resetTime,
       written   |-> [count |-> record.count + 1, resetTime |-> record.resetTime]]

CheckOutcomeExtends(cfg, s, key, t) ==
  LET record == IF key \notin DOMAIN s \/ s[key].resetTime < t
                THEN [count |-> 0, resetTime |-> t + cfg.windowMs]
                ELSE s[key]
      allowed == record.count < cfg.maxRequests
      m == cfg.maxRequests - record.count - 1
  IN  [allowed   |-> allowed,
       remaining |-> IF m > 0 THEN m ELSE 0,
       resetTime |-> record.resetTime,
       written   |-> [count |-> record.count + 1, resetTime |-> t + cfg.windowMs]]

CheckOutcomeKeepsExpired(cfg, s, key, t) ==
  LET record == IF key \notin DOMAIN s
                THEN [count |-> 0, resetTime |-> t + cfg.windowMs]
                ELSE s[key]
      allowed == record.count < cfg.maxRequests
      m == cfg.maxRequests - record.count - 1
  IN  [allowed   |-> allowed,
       remaining |-> IF m > 0 THEN m ELSE 0,
       resetTime |-> record.resetTime,
       written   |-> [count |-> record.count + 1, resetTime |-> record.resetTime]]

CheckOutcome(cfg, s, key, t) ==
  LET record == IF key \notin DOMAIN s \/ s[key].resetTime < t
                THEN [count |-> 0, resetTime |-> t + cfg.windowMs]
                ELSE s[key]
      allowed == record.count < cfg.maxRequests
      m == cfg.maxRequests - record.count - 1
  IN  [allowed   |-> allowed,
       remaining |-> IF m > 0 THEN m ELSE 0,
       resetTime |-> record.resetTime,
       written   |-> [count |-> record.count + 1, resetTime |-> record.resetTime]]

\* The store after a check: cleanup(), then store.set(key, record) if allowed
StoreAfterCheckAlwaysWrites(cfg, s, key, t) ==
  LET swept == cleanup(s, t)
      out == CheckOutcome(cfg, swept, key, t)
  IN  MapSet(swept, key, out.written)

StoreAfterCheckOnlyKey(cfg, s, key, t) ==
  LET swept == cleanup(s, t)
      out == CheckOutcome(cfg, swept, key, t)
  IN  IF out.allowed THEN MapSet(<<>>, key, out.written) ELSE swept

StoreAfterCheck(cfg, s, key, t) ==
  LET swept == cleanup(s, t)
      out == CheckOutcome(cfg, swept, key, t)
  IN  IF out.allowed THEN MapSet(swept, key, out.written) ELSE swept

\* History of the windows, kept apart from the store: a key's window opens
\* at the first check made when the key has no window or its window's
\* resetTime has passed, and lasts until that resetTime has passed.
NoWindow == [open |-> FALSE, resetTime |-> 0, admitted |-> 0, rejected |-> FALSE]

WindowAt(w, cfg, t) ==
  IF ~w.open \/ w.resetTime < t
  THEN [open |-> TRUE, resetTime |-> t + cfg.windowMs, admitted |-> 0, rejected |-> FALSE]
  ELSE w

\* no limiter has been called: each would hold an empty table
NoAlone ==
  [table |-> [l \in Limiters |-> <<>>], allowed |-> FALSE, remaining |-> 0, resetTime |-> 0]

\* no check yet on the table that is never swept
NoUnswept == [table |-> <<>>, allowed |-> FALSE, remaining |-> 0, resetTime |-> 0]

NoCheck ==
  [limiter |-> "none", key |-> <<"none", "none">>, time |-> 0,
   allowed |-> FALSE, remaining |-> 0, resetTime |-> 0, count |-> 0,
   spent |-> FALSE, fresh |-> FALSE, wasRejected |-> FALSE]

\* RateLimiter.check(request) of limiter l: what it does to the table, with
\* the call and the history of the key's window written down
CheckEffect(l, request) ==
  LET cfg == config[l]
      key == defaultKeyGenerator(request)
      out == CheckOutcome(cfg, cleanup(store, now), key, now)
      before == window[key]
      w == WindowAt(before, cfg, now)
  IN  /\ store' = StoreAfterCheck(cfg, store, key, now)
      /\ lastCheck' =
           [limiter |-> l, key |-> key, time |-> now,
            allowed |-> out.allowed, remaining |-> out.remaining,
            resetTime |-> out.resetTime,
            \* the count the table holds for the key after the call
            count |-> IF key \in DOMAIN store' THEN store'[key].count ELSE 0,
            \* the key's window is open and its budget has been admitted
            spent |-> (/\ before.open
                       /\ now <= before.resetTime
                       /\ before.admitted >= cfg.maxRequests),
            \* the first check after the resetTime of the key's window
            fresh |-> (before.open /\ before.resetTime < now),
            wasRejected |-> before.rejected]
      /\ window' = [window EXCEPT ![key] =
                      [w EXCEPT !.admitted = IF out.allowed THEN w.admitted + 1 ELSE w.admitted,
                                !.rejected = w.rejected \/ ~out.allowed]]

Check(l, request) ==
  /\ CheckEffect(l, request)
  /\ UNCHANGED <<now, config, alone, unswept, slidingVars, errorVars, handlerVars, retryVars, flightVars, skipVars, validateVars, utilVars>>

\* check(request) of one of the named limiters, which all work on the one
\* table, with what the limiter would have answered from a table of its own
NamedCheck(l, request) ==
  /\ CheckEffect(l, request)
  /\ LET key == defaultKeyGenerator(request)
         mine == alone.table[l]
         out == CheckOutcome(config[l], cleanup(mine, now), key, now)
     IN  alone' = [table |-> [alone.table EXCEPT
                               ![l] = StoreAfterCheck(config[l], mine, key, now)],
                   allowed |-> out.allowed,
                   remaining |-> out.remaining,
                   resetTime |-> out.resetTime]
  /\ UNCHANGED <<now, config, unswept, slidingVars, errorVars, handlerVars, retryVars, flightVars, skipVars, validateVars, utilVars>>

\* check(request) next to the same call on a table from which no sweep, the
\* periodic one or the cleanup() that opens check, ever removed a record
UnsweptCheck(l, request) ==
  /\ CheckEffect(l, request)
  /\ LET key == defaultKeyGenerator(request)
         out == CheckOutcome(config[l], unswept.table, key, now)
     IN  unswept' = [table |-> IF out.allowed
                               THEN MapSet(unswept.table, key, out.written)
                               ELSE unswept.table,
                     allowed |-> out.allowed,
                     remaining |-> out.remaining,
                     resetTime |-> out.resetTime]
  /\ UNCHANGED <<now, config, alone, slidingVars, errorVars, handlerVars, retryVars, flightVars, skipVars, validateVars, utilVars>>

\* setInterval(() => cleanup(), 5 * 60 * 1000)
Sweep ==
  /\ pc # "done"
  /\ store' = cleanup(store, now)
  /\ store' # store
  /\ UNCHANGED <<now, config, lastCheck, window, alone, unswept, slidingVars, errorVars, handlerVars, retryVars, flightVars, skipVars, validateVars, utilVars>>

\* the clock advances (a wrapped handler and handleApiError return their
\* Response at once: in the state that shows a returned Response nothing
\* else moves)
Tick ==
  /\ pc # "done"
  /\ errResp = NoResponse
  /\ now < MaxTime * Step
  /\ now' = now + Step
  /\ UNCHANGED <<limiterVars, slidingVars, errorVars, handlerVars, retryVars, flightVars, skipVars, validateVars, utilVars>>

\* ------------------------------------------------- updateCount and skip flags

\* RateLimiter.updateCount(request, success): the table after the call
updateCountAlways(cfg, s, key, success) ==
  IF key \in DOMAIN s
  THEN MapSet(s, key, [s[key] EXCEPT !.count = IF @ - 1 > 0 THEN @ - 1 ELSE 0])
  ELSE s

updateCountNoFloor(cfg, s, key, success) ==
  IF (success /\ cfg.skipSuccessfulRequests) \/ (~success /\ cfg.skipFailedRequests)
  THEN IF key \in DOMAIN s
       THEN MapSet(s, key, [s[key] EXCEPT !.count = @ - 1])
       ELSE s
  ELSE s

updateCount(cfg, s, key, success) ==
  IF (success /\ cfg.skipSuccessfulRequests) \/ (~success /\ cfg.skipFailedRequests)
  THEN IF key \in DOMAIN s
       THEN MapSet(s, key, [s[key] EXCEPT !.count = IF @ - 1 > 0 THEN @ - 1 ELSE 0])
       ELSE s
  ELSE s

\* History of one key under check and updateCount, kept apart from the
\* table: the resetTime of the key's window, the checks the window admitted,
\* those of them that completed as excluded (a kind the flags skip), and
\* whether an excluded request that the window did not admit has been taken
\* off the window's count.  checks counts the checks made.
NoTally == [resetTime |-> 0, admitted |-> 0, excluded |-> 0, stray |-> FALSE]

NoSkip ==
  [pending |-> EmptyBag, tally |-> [k \in Keys |-> NoTally], updated |-> FALSE,
   checks |-> 0]

SkipIdle == skip = NoSkip

Excluded(cfg, success) ==
  (success /\ cfg.skipSuccessfulRequests) \/ (~success /\ cfg.skipFailedRequests)

\* check(request) of a request that will complete later
SkipCheck(request) ==
  /\ BagCardinality(skip.pending) < MaxInFlight
  /\ skip.checks < MaxChecks
  /\ store' = StoreAfterCheck(config["apiLimiter"], store, defaultKeyGenerator(request), now)
  /\ LET key == defaultKeyGenerator(request)
         out == CheckOutcome(config["apiLimiter"], cleanup(store, now), key, now)
         old == skip.tally[key]
         tally == IF old.resetTime = out.resetTime
                  THEN old
                  ELSE [NoTally EXCEPT !.resetTime = out.resetTime]
     IN  skip' = [skip EXCEPT
                    !.checks = @ + 1,
                    !.pending = @ (+) SetToBag({[key |-> key, resetTime |-> out.resetTime,
                                                 admitted |-> out.allowed]}),
                    !.tally[key] = [tally EXCEPT
                                      !.admitted = IF out.allowed THEN @ + 1 ELSE @]]
  /\ UNCHANGED <<now, config, lastCheck, window, alone, unswept, slidingVars, errorVars, handlerVars, retryVars, flightVars, validateVars, utilVars>>

\* a pending request completes, with success or failure, and
\* updateCount(request, success) is called for it
Complete(request, success) ==
  /\ BagIn(request, skip.pending)
  /\ LET key == request.key
         cfg == config["apiLimiter"]
         hit == Excluded(cfg, success) /\ key \in DOMAIN store
         own == /\ request.admitted
                /\ key \in DOMAIN store
                /\ store[key].resetTime = request.resetTime
     IN  /\ store' = updateCount(cfg, store, key, success)
         /\ skip' = [skip EXCEPT
                       !.pending = @ (-) SetToBag({request}),
                       !.updated = TRUE,
                       !.tally[key] =
                          IF hit /\ own THEN [@ EXCEPT !.excluded = @ + 1]
                          ELSE IF hit /\ store[key].resetTime = @.resetTime
                          THEN [@ EXCEPT !.stray = TRUE]
                          ELSE @]
  /\ UNCHANGED <<now, config, lastCheck, window, alone, unswept, slidingVars, errorVars, handlerVars, retryVars, flightVars, validateVars, utilVars>>

\* -------------------------------------------------- checks of requests in flight

\* The requests being handled at the same time, each by an invocation of its
\* own.  An invocation runs until it awaits: check(request) holds no await,
\* so the point after its store.get(key) ("read") is no point at which the
\* invocation can be suspended.
Flights == 1..MaxInFlight

CanSuspendMidCheck(point) == TRUE

CanSuspend(point) == point # "read"

\* invocation r may run: no other invocation is in the middle of a run
MayRun(r) == \A other \in Flights \ {r} : CanSuspend(flight[other].pc)

NoFlight ==
  [pc |-> "idle", key |-> <<"none", "none">>, seen |-> <<>>, time |-> 0,
   allowed |-> FALSE]

FlightIdle == flight = [r \in Flights |-> NoFlight]

\* check(request), first half: cleanup(), the key, Date.now() and
\* store.get(key)
ReadRecord(r, request) ==
  /\ flight[r].pc = "idle"
  /\ MayRun(r)
  /\ LET key == defaultKeyGenerator(request)
         swept == cleanup(store, now)
     IN  /\ store' = swept
         /\ flight' = [flight EXCEPT ![r] =
                         [pc |-> "read", key |-> key, time |-> now,
                          seen |-> [k \in DOMAIN swept \cap {key} |-> swept[k]],
                          allowed |-> FALSE]]
         /\ window' = [window EXCEPT ![key] = WindowAt(@, config["apiLimiter"], now)]
  /\ UNCHANGED <<now, config, lastCheck, alone, unswept, slidingVars, errorVars, handlerVars, retryVars, skipVars, validateVars, utilVars>>

\* check(request), second half: the decision on the record read, and
\* record.count++ with store.set(key, record) when allowed
WriteRecord(r) ==
  /\ flight[r].pc = "read"
  /\ MayRun(r)
  /\ LET key == flight[r].key
         out == CheckOutcome(config["apiLimiter"], flight[r].seen, key, flight[r].time)
     IN  /\ store' = IF out.allowed THEN MapSet(store, key, out.written) ELSE store
         /\ flight' = [flight EXCEPT ![r].pc = "checked", ![r].allowed = out.allowed]
         /\ window' = [window EXCEPT ![key].admitted = IF out.allowed THEN @ + 1 ELSE @,
                                     ![key].rejected = @ \/ ~out.allowed]
  /\ UNCHANGED <<now, config, lastCheck, alone, unswept, slidingVars, errorVars, handlerVars, retryVars, skipVars, validateVars, utilVars>>

\* the invocation returns its Response: the request is no longer in flight
Finish(r) ==
  /\ flight[r].pc = "checked"
  /\ MayRun(r)
  /\ flight' = [flight EXCEPT ![r] = NoFlight]
  /\ UNCHANGED <<now, limiterVars, slidingVars, errorVars, handlerVars, retryVars, skipVars, validateVars, utilVars>>

\* timers (the sweep) and the passing of time, between the runs of the
\* invocations
BetweenRuns == \A r \in Flights : CanSuspend(flight[r].pc)

\* ----------------------------------------------------- sliding-window limiter

\* number[].filter(timestamp => timestamp > bound)
RECURSIVE FilterAfter(_, _)
FilterAfter(ts, bound) ==
  IF ts = <<>> THEN <<>>
  ELSE IF Head(ts) > bound THEN <<Head(ts)>> \o FilterAfter(Tail(ts), bound)
       ELSE FilterAfter(Tail(ts), bound)

RECURSIVE FilterFrom(_, _)
FilterFrom(ts, bound) ==
  IF ts = <<>> THEN <<>>
  ELSE IF Head(ts) >= bound THEN <<Head(ts)>> \o FilterFrom(Tail(ts), bound)
       ELSE FilterFrom(Tail(ts), bound)

\* SlidingWindowRateLimiter.check: the timestamps kept, the decision and the
\* list written back (written only when allowed).
SlidingOutcomeInclusive(cfg, m, key, t) ==
  LET windowStart == t - cfg.windowMs
      kept == FilterFrom(IF key \in DOMAIN m THEN m[key] ELSE <<>>, windowStart)
      allowed == Len(kept) < cfg.maxRequests
      r == cfg.maxRequests - Len(kept) - (IF allowed THEN 1 ELSE 0)
  IN  [allowed |-> allowed,
       remaining |-> IF r > 0 THEN r ELSE 0,
       written |-> Append(kept, t)]

SlidingOutcomeLe(cfg, m, key, t) ==
  LET windowStart == t - cfg.windowMs
      kept == FilterAfter(IF key \in DOMAIN m THEN m[key] ELSE <<>>, windowStart)
      allowed == Len(kept) <= cfg.maxRequests
      r == cfg.maxRequests - Len(kept) - (IF allowed THEN 1 ELSE 0)
  IN  [allowed |-> allowed,
       remaining |-> IF r > 0 THEN r ELSE 0,
       written |-> Append(kept, t)]

SlidingOutcome(cfg, m, key, t) ==
  LET windowStart == t - cfg.windowMs
      kept == FilterAfter(IF key \in DOMAIN m THEN m[key] ELSE <<>>, windowStart)
      allowed == Len(kept) < cfg.maxRequests
      r == cfg.maxRequests - Len(kept) - (IF allowed THEN 1 ELSE 0)
  IN  [allowed |-> allowed,
       remaining |-> IF r > 0 THEN r ELSE 0,
       written |-> Append(kept, t)]

RECURSIVE SumOver(_, _)
SumOver(f, S) ==
  IF S = {} THEN 0
  ELSE LET x == CHOOSE y \in S : TRUE IN f[x] + SumOver(f, S \ {x})

\* History: the admissions of a key that a check at time t counts, those
\* made at a time ti with t - ti < windowMs.
Counted(adm, cfg, t) ==
  SumOver(adm, {ti \in DOMAIN adm : t - ti < cfg.windowMs})

\* History: the admission times ti with t - ti < windowMs, in order
RECURSIVE Repeat(_, _)
Repeat(x, n) == IF n = 0 THEN <<>> ELSE <<x>> \o Repeat(x, n - 1)

RECURSIVE TimesFrom(_, _, _)
TimesFrom(adm, from, to) ==
  IF from > to THEN <<>>
  ELSE Repeat(from, adm[from]) \o TimesFrom(adm, from + Step, to)

NoSliding ==
  [called |-> FALSE, key |-> <<"none", "none">>, time |-> 0,
   allowed |-> FALSE, remaining |-> 0, counted |-> 0]

\* SlidingWindowRateLimiter.check(request)
SlidingCheck(request) ==
  LET cfg == slidingConfig
      key == defaultKeyGenerator(request)
      out == SlidingOutcome(cfg, requests, key, now)
  IN  /\ requests' = IF out.allowed THEN MapSet(requests, key, out.written) ELSE requests
      /\ lastSliding' = [called |-> TRUE, key |-> key, time |-> now,
                         allowed |-> out.allowed, remaining |-> out.remaining,
                         counted |-> Counted(admissions[key], cfg, now)]
      /\ admissions' = IF out.allowed
                       THEN [admissions EXCEPT ![key][now] = @ + 1]
                       ELSE admissions
      /\ UNCHANGED <<now, slidingConfig, limiterVars, errorVars, handlerVars, retryVars, flightVars, skipVars, validateVars, utilVars>>

\* SlidingWindowRateLimiter.cleanup()
SlidingCleanup ==
  LET cutoff == now - slidingConfig.windowMs
      filtered == [k \in DOMAIN requests |-> FilterAfter(requests[k], cutoff)]
  IN  /\ requests' = [k \in {x \in DOMAIN requests : filtered[x] # <<>>} |-> filtered[k]]
      /\ requests' # requests
      /\ UNCHANGED <<now, slidingConfig, lastSliding, admissions, limiterVars, errorVars, handlerVars, retryVars, flightVars, skipVars, validateVars, utilVars>>

\* the requests of one client, whose key the limiter counts
SlidingRequests ==
  {r \in LimiterRequests : defaultKeyGenerator(r) = <<"rate_limit", "10.0.0.1">>}

SlidingConfigs == [windowMs : Windows, maxRequests : 1..MaxRequests]

SlidingIdle ==
  /\ slidingConfig = [windowMs |-> Step, maxRequests |-> 1]
  /\ requests = <<>>
  /\ lastSliding = NoSliding
  /\ admissions = [k \in Keys |-> [t \in Times |-> 0]]

SlidingInit ==
  /\ now = 0
  /\ slidingConfig \in SlidingConfigs
  /\ requests = <<>>
  /\ lastSliding = NoSliding
  /\ admissions = [k \in Keys |-> [t \in Times |-> 0]]

LimiterIdle ==
  /\ config = [l \in Limiters |-> [windowMs |-> Step, maxRequests |-> 1,
                                   skipSuccessfulRequests |-> FALSE,
                                   skipFailedRequests |-> FALSE]]
  /\ store = <<>>
  /\ lastCheck = NoCheck
  /\ window = [k \in Keys |-> NoWindow]
  /\ alone = NoAlone
  /\ unswept = NoUnswept

\* ------------------------------------------------------------ error responder

\* enum ErrorCode
ErrorCode ==
  {"UNAUTHORIZED", "FORBIDDEN", "SESSION_EXPIRED",
   "VALIDATION_ERROR", "INVALID_INPUT", "MISSING_REQUIRED_FIELD",
   "DATABASE_ERROR", "RECORD_NOT_FOUND", "DUPLICATE_ENTRY",
   "EXTERNAL_API_ERROR", "API_RATE_LIMITED", "API_UNAVAILABLE",
   "AI_ERROR", "TOOL_EXECUTION_ERROR",
   "INTERNAL_SERVER_ERROR", "NETWORK_ERROR", "TIMEOUT"}

\* A message is the list of its parts; String.includes(part) looks for one.
MessageParts == {"relation", "does not exist", "timeout", "ECONNREFUSED", "failed"}

RECURSIVE SeqsUpTo(_, _)
SeqsUpTo(S, n) ==
  IF n = 0 THEN {<<>>}
  ELSE LET shorter == SeqsUpTo(S, n - 1)
       IN  shorter \cup {Append(m, x) : m \in shorter, x \in S}

Messages == SeqsUpTo(MessageParts, MaxMessageParts)

includes(message, part) == \E i \in 1..Len(message) : message[i] = part

\* the values of an error's details
Undefined == [is |-> "undefined"]
Null == [is |-> "null"]
FieldDetails == [is |-> "object", field |-> "title"]

\* new ApplicationError(code, message, details), constructed at time t
ApplicationError(code, message, details, t) ==
  [class |-> "ApplicationError", code |-> code, message |-> message,
   details |-> details, timestamp |-> t]

\* new Error(message)
Error(message) ==
  [class |-> "Error", code |-> "", message |-> message,
   details |-> Undefined, timestamp |-> 0]

\* a thrown value that is no Error, such as a string
NonError ==
  [class |-> "other", code |-> "", message |-> <<>>,
   details |-> Undefined, timestamp |-> 0]

\* function getStatusCodeFromErrorCode(code)
getStatusCodeFromErrorCodeNoTimeout(code) ==
  CASE code \in {"UNAUTHORIZED", "SESSION_EXPIRED"} -> 401
    [] code = "FORBIDDEN" -> 403
    [] code = "RECORD_NOT_FOUND" -> 404
    [] code \in {"VALIDATION_ERROR", "INVALID_INPUT", "MISSING_REQUIRED_FIELD"} -> 400
    [] code = "DUPLICATE_ENTRY" -> 409
    [] code = "API_RATE_LIMITED" -> 429
    [] code = "API_UNAVAILABLE" -> 503
    [] OTHER -> 500

getStatusCodeFromErrorCode(code) ==
  CASE code \in {"UNAUTHORIZED", "SESSION_EXPIRED"} -> 401
    [] code = "FORBIDDEN" -> 403
    [] code = "RECORD_NOT_FOUND" -> 404
    [] code \in {"VALIDATION_ERROR", "INVALID_INPUT", "MISSING_REQUIRED_FIELD"} -> 400
    [] code = "DUPLICATE_ENTRY" -> 409
    [] code = "API_RATE_LIMITED" -> 429
    [] code = "API_UNAVAILABLE" -> 503
    [] code = "TIMEOUT" -> 408
    [] OTHER -> 500

JsonHeaders == [x \in {"Content-Type"} |-> "application/json"]

\* function handleApiError(error), called at time t
handleApiErrorNetworkFirst(error, t) ==
  IF error.class = "ApplicationError"
  THEN [status |-> getStatusCodeFromErrorCode(error.code),
        headers |-> JsonHeaders,
        body |-> [error |-> [code |-> error.code, message |-> error.message,
                             details |-> error.details,
                             timestamp |-> error.timestamp]]]
  ELSE IF /\ error.class = "Error"
          /\ (includes(error.message, "timeout") \/ includes(error.message, "ECONNREFUSED"))
  THEN [status |-> 503,
        headers |-> JsonHeaders,
        body |-> [error |-> [code |-> "NETWORK_ERROR",
                             message |-> <<"Network connection failed. Please try again.">>,
                             timestamp |-> t]]]
  ELSE IF /\ error.class = "Error"
          /\ includes(error.message, "relation")
          /\ includes(error.message, "does not exist")
  THEN [status |-> 500,
        headers |-> JsonHeaders,
        body |-> [error |-> [code |-> "DATABASE_ERROR",
                             message |-> <<"Database table does not exist. Please run migrations.">>,
                             timestamp |-> t]]]
  ELSE [status |-> 500,
        headers |-> JsonHeaders,
        body |-> [error |-> [code |-> "INTERNAL_SERVER_ERROR",
                             message |-> IF error.class = "Error" THEN error.message
                                         ELSE <<"An unexpected error occurred">>,
                             timestamp |-> t]]]

handleApiError(error, t) ==
  IF error.class = "ApplicationError"
  THEN [status |-> getStatusCodeFromErrorCode(error.code),
        headers |-> JsonHeaders,
        body |-> [error |-> [code |-> error.code, message |-> error.message,
                             details |-> error.details,
                             timestamp |-> error.timestamp]]]
  ELSE IF /\ error.class = "Error"
          /\ includes(error.message, "relation")
          /\ includes(error.message, "does not exist")
  THEN [status |-> 500,
        headers |-> JsonHeaders,
        body |-> [error |-> [code |-> "DATABASE_ERROR",
                             message |-> <<"Database table does not exist. Please run migrations.">>,
                             timestamp |-> t]]]
  ELSE IF /\ error.class = "Error"
          /\ (includes(error.message, "timeout") \/ includes(error.message, "ECONNREFUSED"))
  THEN [status |-> 503,
        headers |-> JsonHeaders,
        body |-> [error |-> [code |-> "NETWORK_ERROR",
                             message |-> <<"Network connection failed. Please try again.">>,
                             timestamp |-> t]]]
  ELSE [status |-> 500,
        headers |-> JsonHeaders,
        body |-> [error |-> [code |-> "INTERNAL_SERVER_ERROR",
                             message |-> IF error.class = "Error" THEN error.message
                                         ELSE <<"An unexpected error occurred">>,
                             timestamp |-> t]]]

\* the values a caller can hand to handleApiError at time t
ThrownValues(t) ==
  {ApplicationError(c, m, d, t) : c \in ErrorCode, m \in Messages,
                                  d \in {Undefined, FieldDetails}}
  \cup {Error(m) : m \in Messages}
  \cup {NonError}

\* a route's catch block calls handleApiError(error)
HandleApiError(error) ==
  /\ errResp = NoResponse
  /\ thrown' = error
  /\ errResp' = handleApiError(error, now)
  /\ UNCHANGED <<now, limiterVars, slidingVars, handlerVars, retryVars, flightVars, skipVars, validateVars, utilVars>>

\* the route has returned the Response
ErrorReturned ==
  /\ errResp # NoResponse
  /\ thrown' = NonError
  /\ errResp' = NoResponse
  /\ UNCHANGED <<now, limiterVars, slidingVars, handlerVars, retryVars, flightVars, skipVars, validateVars, utilVars>>

ErrorIdle ==
  /\ thrown = NonError
  /\ errResp = NoResponse

\* ----------------------------------------------------------------- validators

\* the values handed to a validator: undefined, null, strings (by their
\* characters), a number, a boolean and an object
StringOf(n) == [is |-> "string", chars |-> [i \in 1..n |-> "a"]]

Values ==
  {Undefined, Null, [is |-> "number", n |-> 0], [is |-> "boolean", b |-> FALSE],
   FieldDetails}
  \cup {StringOf(n) : n \in 0..MaxStrLen}

\* typeof value
typeof(value) == IF value.is = "null" THEN "object" ELSE value.is

FieldNames == {"title", "email"}

\* minLength and maxLength: absent (undefined) or a number
Lengths == {Undefined} \cup {[is |-> "number", n |-> n] : n \in 0..(MaxStrLen + 1)}

\* a call that returns without throwing
Returns ==
  [class |-> "returns", code |-> "", message |-> <<>>,
   details |-> Undefined, timestamp |-> 0]

\* validators.required(value, fieldName): what it throws, at time t
validatorsRequired(value, fieldName, t) ==
  IF value = Undefined \/ value = Null \/ value = StringOf(0)
  THEN ApplicationError("MISSING_REQUIRED_FIELD", <<fieldName, "is required">>,
                        [is |-> "object", field |-> fieldName], t)
  ELSE Returns

\* validators.string(value, fieldName, minLength, maxLength): what it
\* throws, at time t
validatorsStringExclusive(value, fieldName, minLength, maxLength, t) ==
  IF typeof(value) # "string"
  THEN ApplicationError("INVALID_INPUT", <<fieldName, "must be a string">>,
                        [is |-> "object", field |-> fieldName, type |-> "string",
                         received |-> typeof(value)], t)
  ELSE IF minLength # Undefined /\ Len(value.chars) <= minLength.n
  THEN ApplicationError("VALIDATION_ERROR",
                        <<fieldName, "must be at least", minLength.n, "characters">>,
                        [is |-> "object", field |-> fieldName, minLength |-> minLength.n,
                         currentLength |-> Len(value.chars)], t)
  ELSE IF maxLength # Undefined /\ Len(value.chars) > maxLength.n
  THEN ApplicationError("VALIDATION_ERROR",
                        <<fieldName, "must be no more than", maxLength.n, "characters">>,
                        [is |-> "object", field |-> fieldName, maxLength |-> maxLength.n,
                         currentLength |-> Len(value.chars)], t)
  ELSE Returns

validatorsString(value, fieldName, minLength, maxLength, t) ==
  IF typeof(value) # "string"
  THEN ApplicationError("INVALID_INPUT", <<fieldName, "must be a string">>,
                        [is |-> "object", field |-> fieldName, type |-> "string",
                         received |-> typeof(value)], t)
  ELSE IF minLength # Undefined /\ Len(value.chars) < minLength.n
  THEN ApplicationError("VALIDATION_ERROR",
                        <<fieldName, "must be at least", minLength.n, "characters">>,
                        [is |-> "object", field |-> fieldName, minLength |-> minLength.n,
                         currentLength |-> Len(value.chars)], t)
  ELSE IF maxLength # Undefined /\ Len(value.chars) > maxLength.n
  THEN ApplicationError("VALIDATION_ERROR",
                        <<fieldName, "must be no more than", maxLength.n, "characters">>,
                        [is |-> "object", field |-> fieldName, maxLength |-> maxLength.n,
                         currentLength |-> Len(value.chars)], t)
  ELSE Returns

NoValidation ==
  [validator |-> "none", value |-> Undefined, fieldName |-> "",
   minLength |-> Undefined, maxLength |-> Undefined, threw |-> Returns]

ValidateIdle == validation = NoValidation

\* a route calls validators.required
ValidateRequired(value, fieldName) ==
  /\ validation' = [validator |-> "required", value |-> value, fieldName |-> fieldName,
                    minLength |-> Undefined, maxLength |-> Undefined,
                    threw |-> validatorsRequired(value, fieldName, now)]
  /\ UNCHANGED <<now, limiterVars, slidingVars, errorVars, handlerVars, retryVars, flightVars, skipVars, utilVars>>

\* a route calls validators.string
ValidateString(value, fieldName, minLength, maxLength) ==
  /\ validation' = [validator |-> "string", value |-> value, fieldName |-> fieldName,
                    minLength |-> minLength, maxLength |-> maxLength,
                    threw |-> validatorsString(value, fieldName, minLength, maxLength, now)]
  /\ UNCHANGED <<now, limiterVars, slidingVars, errorVars, handlerVars, retryVars, flightVars, skipVars, utilVars>>

\* ------------------------------------------------------------------ withRetry

\* String(error) of a thrown value that is no Error: a thrown string
ThrownString(text) ==
  [class |-> "other", code |-> "", message |-> text,
   details |-> Undefined, timestamp |-> 0]

\* lastError = error instanceof Error ? error : new Error(String(error))
AsError(error) ==
  IF error.class \in {"Error", "ApplicationError"} THEN error ELSE Error(error.message)

\* Math.pow(2, n)
RECURSIVE Pow2(_)
Pow2(n) == IF n = 0 THEN 1 ELSE 2 * Pow2(n - 1)

\* const waitTime = delay * Math.pow(2, attempt - 1)
waitTimeFlat(delay, attempt) == delay

waitTime(delay, attempt) == delay * Pow2(attempt - 1)

\* the ApplicationError thrown when attempt === maxRetries, at time t
ExhaustedErrorOneLess(maxRetries, lastError, t) ==
  ApplicationError("EXTERNAL_API_ERROR",
                   <<"Operation failed after", maxRetries, "attempts:">> \o lastError.message,
                   [is |-> "object", attempts |-> maxRetries - 1,
                    lastError |-> lastError.message],
                   t)

ExhaustedError(maxRetries, lastError, t) ==
  ApplicationError("EXTERNAL_API_ERROR",
                   <<"Operation failed after", maxRetries, "attempts:">> \o lastError.message,
                   [is |-> "object", attempts |-> maxRetries, lastError |-> lastError.message],
                   t)

\* the value the operation resolves with
Data == [is |-> "object", data |-> "data"]

\* what one call of the operation does: it resolves with a value, or rejects
\* with an Error or with a value that is no Error
OperationOutcomes ==
  {[kind |-> "resolve", value |-> Data],
   [kind |-> "reject", value |-> Error(<<"timeout">>)],
   [kind |-> "reject", value |-> Error(<<"ECONNREFUSED">>)],
   [kind |-> "reject", value |-> ThrownString(<<"failed">>)]}

Pending == [kind |-> "pending", value |-> "none"]

Delays == {n * Step : n \in 1..MaxDelay}

\* withRetry has not been called.  calls is the history of the calls of the
\* operation: when each began, when it settled and how.
NoRetry ==
  [pc |-> "idle", maxRetries |-> 0, delay |-> 0, attempt |-> 0,
   lastError |-> Undefined, wakeAt |-> 0, calls |-> <<>>,
   calledAt |-> 0, settledAt |-> 0, result |-> Undefined]

RetryIdle == retry = NoRetry

\* return await operation(): the operation is called (again)
CallOperation(r, attempt, t) ==
  [r EXCEPT !.pc = "running", !.attempt = attempt,
            !.calls = Append(@, [start |-> t, end |-> t, outcome |-> Pending])]

\* withRetry(operation, maxRetries, delay) is called: the loop's first
\* iteration calls the operation, or the loop is not entered and
\* `throw lastError!` throws the unassigned lastError
WithRetry(maxRetries, delay) ==
  /\ retry.pc = "idle"
  /\ LET r == [retry EXCEPT !.maxRetries = maxRetries, !.delay = delay,
                            !.calledAt = now]
     IN  retry' = IF 1 <= maxRetries
                  THEN CallOperation(r, 1, now)
                  ELSE [r EXCEPT !.pc = "raised", !.result = r.lastError,
                                 !.settledAt = now]
  /\ UNCHANGED <<now, limiterVars, slidingVars, errorVars, handlerVars, flightVars, skipVars, validateVars, utilVars>>

\* the operation resolves: withRetry returns the value
OnResolveGoesOn(r, value, t) ==
  [r EXCEPT !.pc = "waiting", !.wakeAt = t]

OnResolve(r, value, t) ==
  [r EXCEPT !.pc = "returned", !.result = value, !.settledAt = t]

\* the operation rejects: the catch block throws after the last attempt and
\* sets the timer otherwise
OnReject(r, error, t) ==
  LET lastError == AsError(error)
  IN  IF r.attempt = r.maxRetries
      THEN [r EXCEPT !.pc = "raised", !.lastError = lastError,
                     !.result = ExhaustedError(r.maxRetries, lastError, t),
                     !.settledAt = t]
      ELSE [r EXCEPT !.pc = "waiting", !.lastError = lastError,
                     !.wakeAt = t + waitTime(r.delay, r.attempt)]

\* the promise of the running call of the operation settles
OperationSettles(outcome) ==
  /\ retry.pc = "running"
  /\ LET n == Len(retry.calls)
         r == [retry EXCEPT !.calls[n].end = now, !.calls[n].outcome = outcome]
     IN  retry' = IF outcome.kind = "resolve"
                  THEN OnResolve(r, outcome.value, now)
                  ELSE OnReject(r, outcome.value, now)
  /\ UNCHANGED <<now, limiterVars, slidingVars, errorVars, handlerVars, flightVars, skipVars, validateVars, utilVars>>

\* setTimeout(resolve, waitTime) fires, not before the wait has elapsed: the
\* loop's next iteration calls the operation
TimerFires ==
  /\ retry.pc = "waiting"
  /\ now >= retry.wakeAt
  /\ retry' = CallOperation(retry, retry.attempt + 1, now)
  /\ UNCHANGED <<now, limiterVars, slidingVars, errorVars, handlerVars, flightVars, skipVars, validateVars, utilVars>>

\* time passes while the operation runs or the timer is pending (the
\* operation takes at most one step, the timer is at most one step late)
RetryTick ==
  /\ \/ retry.pc = "running" /\ now < retry.calls[Len(retry.calls)].start + Step
     \/ retry.pc = "waiting" /\ now < retry.wakeAt + Step
  /\ now' = now + Step
  /\ UNCHANGED <<limiterVars, slidingVars, errorVars, handlerVars, retryVars, flightVars, skipVars, validateVars, utilVars>>

\* ------------------------------------------------------------ handler wrapper

\* meta.timestamp, new Date().toISOString(): a string whose value is left open
IsoTimestamp == "toISOString"

\* function createErrorResponse(code, message, details, status)
createErrorResponse(code, message, details, status) ==
  [status |-> status,
   headers |-> JsonHeaders,
   body |-> [success |-> FALSE,
             error |-> [code |-> code, message |-> message, details |-> details],
             meta |-> [timestamp |-> IsoTimestamp]]]

\* function createSuccessResponse(data)
createSuccessResponse(data) ==
  [status |-> 200,
   headers |-> JsonHeaders,
   body |-> [success |-> TRUE, data |-> data, meta |-> [timestamp |-> IsoTimestamp]]]

\* function generateRequestId(): `req_${Date.now()}_${random}`
generateRequestId(t, random) == <<"req", t, random>>

RandomParts == {"k3x9"}

\* function getAuthenticatedUser(request): what getServerSession gives is
\* null, a session without user, a session with a user, or an exception
Sessions == {"null", "noUser", "alice", "throws"}

getAuthenticatedUser(session) ==
  IF session \in {"null", "noUser", "throws"}
  THEN Null
  ELSE [is |-> "user", id |-> session]

\* function requireAuth(request): the Response it throws, if it throws
requireAuthUncaught(session) ==
  IF session = "throws"
  THEN createErrorResponse("INTERNAL_SERVER_ERROR", <<"failed">>, Null, 500)
  ELSE IF getAuthenticatedUser(session) = Null
  THEN createErrorResponse("UNAUTHORIZED", <<"Authentication required">>, Null, 401)
  ELSE NoResponse

requireAuth(session) ==
  IF getAuthenticatedUser(session) = Null
  THEN createErrorResponse("UNAUTHORIZED", <<"Authentication required">>, Null, 401)
  ELSE NoResponse

\* function validateMethod(request, allowedMethods): the Response it throws,
\* if it throws
validateMethodNever(method, allowedMethods) == NoResponse

validateMethod(method, allowedMethods) ==
  IF ~(\E i \in 1..Len(allowedMethods) : allowedMethods[i] = method)
  THEN createErrorResponse(
         "METHOD_NOT_ALLOWED",
         <<"Method", method, "not allowed. Allowed methods:">> \o allowedMethods,
         [is |-> "object", allowedMethods |-> allowedMethods],
         405)
  ELSE NoResponse

\* Math.ceil(a / b)
CeilDiv(a, b) == -((-a) \div b)

\* RateLimiter.getHeaders(remaining, resetTime)
getHeaders(cfg, remaining, resetTime) ==
  [x \in {"X-RateLimit-Limit", "X-RateLimit-Remaining",
          "X-RateLimit-Reset", "X-RateLimit-Window"} |->
     CASE x = "X-RateLimit-Limit" -> cfg.maxRequests
       [] x = "X-RateLimit-Remaining" -> remaining
       [] x = "X-RateLimit-Reset" -> CeilDiv(resetTime, MsPerSecond)
       [] x = "X-RateLimit-Window" -> CeilDiv(cfg.windowMs, MsPerSecond)]

DefaultMessage == <<"Too many requests, please try again later.">>

\* the Response of new Response(null, { headers })
NullBody == [null |-> TRUE]

\* createRateLimit(limiter): the Response the middleware builds from the
\* outcome of limiter.check
RateLimitResponseNoRetryAfter(cfg, out, t) ==
  LET headers == getHeaders(cfg, out.remaining, out.resetTime)
  IN  IF ~out.allowed
      THEN [status |-> 429,
            headers |-> [x \in DOMAIN headers \cup {"Content-Type"} |->
                           IF x = "Content-Type" THEN "application/json"
                           ELSE headers[x]],
            body |-> [error |-> [code |-> "RATE_LIMITED",
                                 message |-> DefaultMessage,
                                 retryAfter |-> CeilDiv(out.resetTime - t, MsPerSecond)]]]
      ELSE [status |-> 200, headers |-> headers, body |-> NullBody]

RateLimitResponse(cfg, out, t) ==
  LET headers == getHeaders(cfg, out.remaining, out.resetTime)
  IN  IF ~out.allowed
      THEN [status |-> 429,
            headers |-> [x \in DOMAIN headers \cup {"Content-Type", "Retry-After"} |->
                           CASE x = "Content-Type" -> "application/json"
                             [] x = "Retry-After" -> CeilDiv(out.resetTime - t, MsPerSecond)
                             [] OTHER -> headers[x]],
            body |-> [error |-> [code |-> "RATE_LIMITED",
                                 message |-> DefaultMessage,
                                 retryAfter |-> CeilDiv(out.resetTime - t, MsPerSecond)]]]
      ELSE [status |-> 200, headers |-> headers, body |-> NullBody]

\* the catch block of the middleware: `return null`, the request is let
\* through
RateLimitCatchAnswers(requestId) ==
  createErrorResponse("INTERNAL_SERVER_ERROR", <<"failed">>,
                      [is |-> "object", requestId |-> requestId], 500)

RateLimitCatch(requestId) == NoResponse

\* the catch block of the wrapped handler, for a thrown value that is no
\* Response
CatchErrorRethrow(error, requestId) ==
  IF error.class \in {"Error", "ApplicationError"}
  THEN createErrorResponse("INTERNAL_SERVER_ERROR", error.message,
                           [is |-> "object", requestId |-> requestId], 500)
  ELSE NoResponse

CatchError(error, requestId) ==
  IF error.class \in {"Error", "ApplicationError"}
  THEN createErrorResponse("INTERNAL_SERVER_ERROR", error.message,
                           [is |-> "object", requestId |-> requestId], 500)
  ELSE createErrorResponse("INTERNAL_SERVER_ERROR", <<"An unexpected error occurred">>,
                           [is |-> "object", requestId |-> requestId], 500)

\* options of createApiHandler.  rateLimiter is absent ("none"), the
\* middleware createRateLimit(limiter) of a limiter, that of a limiter
\* whose key generator throws ("throwing"), or a middleware of the route's
\* own whose promise rejects with an Error ("rejecting").
AllowedMethodsOptions ==
  {[given |-> FALSE, list |-> <<>>], [given |-> TRUE, list |-> <<"GET", "POST">>]}

HandlerOptions ==
  [requireAuth : BOOLEAN,
   allowedMethods : AllowedMethodsOptions,
   rateLimiter : {"none", "apiLimiter", "throwing", "rejecting"}]

Methods == {"GET", "DELETE"}

HandlerRequests == {[forwarded |-> <<>>, ip |-> "10.0.0.1"],
                    [forwarded |-> <<"10.0.0.1">>, ip |-> "10.0.0.2"]}

\* the context of the route: the default `{}`, or the path parameters
NoContext == [params |-> Undefined]

Contexts == {NoContext, [params |-> [is |-> "object", id |-> "chat-1"]]}

\* what the domain handler does: it returns a Response, throws a Response,
\* or throws an error or another value
HandlerOutcomes(t) ==
  {[kind |-> "return", value |-> createSuccessResponse("chat")]}
  \cup {[kind |-> "throwResponse",
         value |-> createErrorResponse("FORBIDDEN", <<"failed">>, Null, 403)]}
  \cup {[kind |-> "throw", value |-> ApplicationError(c, <<"failed">>, FieldDetails, t)] :
          c \in ErrorCode}
  \cup {[kind |-> "throw", value |-> Error(<<"timeout">>)],
        [kind |-> "throw", value |-> NonError]}

NoOutcome == [kind |-> "none", value |-> NoResponse]

NoInvocation ==
  [opts |-> [requireAuth |-> FALSE,
             allowedMethods |-> [given |-> FALSE, list |-> <<>>],
             rateLimiter |-> "none"],
   method |-> "GET", request |-> [forwarded |-> <<>>, ip |-> "10.0.0.1"],
   context |-> NoContext,
   session |-> "null", requestId |-> <<"req", 0, "">>]

\* history of an invocation: what the limiter stage did ("no" when it was
\* not reached or not configured), whether the session was looked up, the
\* user and the params handed to the domain handler and the number of its
\* calls, what the domain
\* handler did, and the limiter's table when the invocation began
NotRun == [limiter |-> "no", auth |-> FALSE, user |-> Null,
           params |-> Undefined, handler |-> 0,
           outcome |-> NoOutcome, tableAtCall |-> <<>>]

\* The wrapped handler is called: it runs up to its first suspension, through
\* the method validation and the rate limiter, which does not suspend.
Receive(opts, method, request, context, session, random) ==
  /\ pc = "idle"
  /\ LET requestId == generateRequestId(now, random)
         methodError == IF opts.allowedMethods.given
                        THEN validateMethod(method, opts.allowedMethods.list)
                        ELSE NoResponse
         l == opts.rateLimiter
         out == CheckOutcome(config[l], cleanup(store, now),
                             defaultKeyGenerator(request), now)
     IN  /\ cur' = [opts |-> opts, method |-> method, request |-> request,
                    context |-> context, session |-> session, requestId |-> requestId]
         /\ IF methodError # NoResponse
            THEN \* validateMethod throws a Response, which the catch returns
                 /\ resp' = methodError
                 /\ ran' = [NotRun EXCEPT !.tableAtCall = store]
                 /\ pc' = "done"
                 /\ UNCHANGED limiterVars
            ELSE IF l = "none"
            THEN /\ resp' = NoResponse
                 /\ ran' = [NotRun EXCEPT !.tableAtCall = store]
                 /\ pc' = "auth"
                 /\ UNCHANGED limiterVars
            ELSE IF l = "throwing"
            THEN \* check throws after cleanup(): the middleware returns null
                 /\ store' = cleanup(store, now)
                 /\ resp' = RateLimitCatch(requestId)
                 /\ ran' = [NotRun EXCEPT !.limiter = "threw", !.tableAtCall = store]
                 /\ pc' = IF RateLimitCatch(requestId) = NoResponse THEN "auth" ELSE "done"
                 /\ UNCHANGED <<config, lastCheck, window, alone, unswept>>
            ELSE IF l = "rejecting"
            THEN \* the middleware throws: the catch block answers
                 /\ resp' = CatchError(Error(<<"failed">>), requestId)
                 /\ ran' = [NotRun EXCEPT !.limiter = "raised", !.tableAtCall = store]
                 /\ pc' = "done"
                 /\ UNCHANGED limiterVars
            ELSE \* the middleware returns a Response, which the wrapper returns
                 /\ store' = StoreAfterCheck(config[l], store,
                                             defaultKeyGenerator(request), now)
                 /\ resp' = RateLimitResponse(config[l], out, now)
                 /\ ran' = [NotRun EXCEPT
                              !.limiter = IF out.allowed THEN "allowed" ELSE "rejected",
                              !.tableAtCall = store]
                 /\ pc' = "done"
                 /\ UNCHANGED <<config, lastCheck, window, alone, unswept>>
  /\ UNCHANGED <<now, slidingVars, errorVars, retryVars, flightVars, skipVars, validateVars, utilVars>>

\* getServerSession settles: requireAuth or getAuthenticatedUser gives the
\* user, and the domain handler is called unless requireAuth throws
ResolveSession ==
  /\ pc = "auth"
  /\ LET user == getAuthenticatedUser(cur.session)
         authError == IF cur.opts.requireAuth
                      THEN requireAuth(cur.session)
                      ELSE NoResponse
     IN  IF authError # NoResponse
         THEN /\ resp' = authError
              /\ ran' = [ran EXCEPT !.auth = TRUE]
              /\ pc' = "done"
         ELSE /\ resp' = NoResponse
              \* handler(request, { ...context, user })
              /\ ran' = [ran EXCEPT !.auth = TRUE, !.user = user,
                                    !.params = cur.context.params, !.handler = @ + 1]
              /\ pc' = "handler"
  /\ UNCHANGED <<now, cur, limiterVars, slidingVars, errorVars, retryVars, flightVars, skipVars, validateVars, utilVars>>

\* the domain handler settles
HandlerSettles(outcome) ==
  /\ pc = "handler"
  /\ resp' = CASE outcome.kind = "return" -> outcome.value
               [] outcome.kind = "throwResponse" -> outcome.value
               [] OTHER -> CatchError(outcome.value, cur.requestId)
  /\ ran' = [ran EXCEPT !.outcome = outcome]
  /\ pc' = "done"
  /\ UNCHANGED <<now, cur, limiterVars, slidingVars, errorVars, retryVars, flightVars, skipVars, validateVars, utilVars>>

\* the caller has the Response: the invocation is over
Return ==
  /\ pc = "done"
  /\ pc' = "idle"
  /\ cur' = NoInvocation
  /\ ran' = NotRun
  /\ resp' = NoResponse
  /\ UNCHANGED <<now, limiterVars, slidingVars, errorVars, retryVars, flightVars, skipVars, validateVars, utilVars>>

HandlerIdle ==
  /\ pc = "idle"
  /\ cur = NoInvocation
  /\ ran = NotRun
  /\ resp = NoResponse

\* --------------------------------------------------------------- asyncHandler

\* what the wrapped function does: it resolves with a value, or rejects with
\* an ApplicationError made earlier, an Error or a value that is no Error
FnOutcomes(t) ==
  {[kind |-> "resolve", value |-> Data]}
  \cup {[kind |-> "reject", value |-> ApplicationError(c, <<"failed">>, d, made)] :
          c \in ErrorCode, d \in {Undefined, FieldDetails},
          made \in {x \in Times : x <= t}}
  \cup {[kind |-> "reject", value |-> Error(<<m>>)] : m \in MessageParts}
  \cup {[kind |-> "reject", value |-> ThrownString(<<"failed">>)],
        [kind |-> "reject", value |-> NonError]}

UnknownError == <<"Unknown error occurred">>

\* asyncHandler(fn)(...args), settled at time t: what it returns or throws
asyncHandlerRewraps(outcome, t) ==
  IF outcome.kind = "resolve"
  THEN [kind |-> "return", value |-> outcome.value]
  ELSE [kind |-> "throw",
        value |-> ApplicationError("INTERNAL_SERVER_ERROR",
                                   IF outcome.value.class \in {"Error", "ApplicationError"}
                                   THEN outcome.value.message
                                   ELSE UnknownError,
                                   Undefined, t)]

asyncHandler(outcome, t) ==
  IF outcome.kind = "resolve"
  THEN [kind |-> "return", value |-> outcome.value]
  ELSE IF outcome.value.class = "ApplicationError"
  THEN [kind |-> "throw", value |-> outcome.value]
  ELSE [kind |-> "throw",
        value |-> ApplicationError("INTERNAL_SERVER_ERROR",
                                   IF outcome.value.class = "Error"
                                   THEN outcome.value.message
                                   ELSE UnknownError,
                                   Undefined, t)]

NoWrapped ==
  [called |-> FALSE, outcome |-> [kind |-> "none", value |-> Undefined],
   result |-> [kind |-> "none", value |-> Undefined], time |-> 0]

\* the wrapped function is called and settles
AsyncCall(outcome) ==
  /\ wrapped' = [called |-> TRUE, outcome |-> outcome,
                 result |-> asyncHandler(outcome, now), time |-> now]
  /\ UNCHANGED <<now, parsed, paged, hook, limiterVars, slidingVars, errorVars, handlerVars, retryVars, flightVars, skipVars, validateVars>>

\* The bodies a request carries, as text.
BodyTexts ==
  {"", "{", "abc", "{title:",
   "null", "true", "false", "0", "1", "\"a\"", "[]", "{}",
   "{\"title\":\"a\"}", "{\"title\":1}", "{\"model\":\"m\"}",
   "{\"title\":\"a\",\"model\":\"m\"}"}

JsonNumber(n) == [is |-> "number", num |-> n]
JsonString(s) == [is |-> "string", str |-> s]
JsonObject(title, model) == [is |-> "object", title |-> title, model |-> model]

\* request.json(): the value the text stands for, or a SyntaxError
requestJson(text) ==
  CASE text = "null" -> [ok |-> TRUE, value |-> [is |-> "null"]]
    [] text = "true" -> [ok |-> TRUE, value |-> [is |-> "boolean", bool |-> TRUE]]
    [] text = "false" -> [ok |-> TRUE, value |-> [is |-> "boolean", bool |-> FALSE]]
    [] text = "0" -> [ok |-> TRUE, value |-> JsonNumber(0)]
    [] text = "1" -> [ok |-> TRUE, value |-> JsonNumber(1)]
    [] text = "\"a\"" -> [ok |-> TRUE, value |-> JsonString("a")]
    [] text = "[]" -> [ok |-> TRUE, value |-> [is |-> "array"]]
    [] text = "{}" -> [ok |-> TRUE, value |-> JsonObject(Undefined, Undefined)]
    [] text = "{\"title\":\"a\"}"
         -> [ok |-> TRUE, value |-> JsonObject(JsonString("a"), Undefined)]
    [] text = "{\"title\":1}"
         -> [ok |-> TRUE, value |-> JsonObject(JsonNumber(1), Undefined)]
    [] text = "{\"model\":\"m\"}"
         -> [ok |-> TRUE, value |-> JsonObject(Undefined, JsonString("m"))]
    [] text = "{\"title\":\"a\",\"model\":\"m\"}"
         -> [ok |-> TRUE, value |-> JsonObject(JsonString("a"), JsonString("m"))]
    [] OTHER -> [ok |-> FALSE, value |-> Error(<<"Unexpected token">>)]

\* the validator argument: left out, or a type guard
NoValidator == "undefined"
Validators ==
  {NoValidator, "always", "never", "isObject", "isString", "hasTitle", "hasModel"}

\* validator(body), for a validator that was given
Accepts(validator, body) ==
  CASE validator = "always" -> TRUE
    [] validator = "never" -> FALSE
    [] validator = "isObject" -> body.is = "object"
    [] validator = "isString" -> body.is = "string"
    [] validator = "hasTitle" -> body.is = "object" /\ body.title.is = "string"
    [] validator = "hasModel" -> body.is = "object" /\ body.model.is = "string"

InvalidFormat == <<"Invalid request body format">>
InvalidJson == <<"Invalid JSON in request body">>

\* the try block of parseRequestBody
parseRequestBodyTry(text, validator) ==
  LET body == requestJson(text)
  IN  IF ~body.ok THEN [kind |-> "throw", value |-> body.value]
      ELSE IF validator # NoValidator /\ ~Accepts(validator, body.value)
      THEN [kind |-> "throw", value |-> Error(InvalidFormat)]
      ELSE [kind |-> "return", value |-> body.value]

\* parseRequestBody: whatever the try block throws is caught and replaced
parseRequestBody(text, validator) ==
  LET tried == parseRequestBodyTry(text, validator)
  IN  IF tried.kind = "throw"
      THEN [kind |-> "throw", value |-> Error(InvalidJson)]
      ELSE tried

NoParsed ==
  [called |-> FALSE, text |-> "", validator |-> NoValidator,
   result |-> [kind |-> "none", value |-> Undefined]]

\* a route parses the body of a request
ParseCall(text, validator) ==
  /\ parsed' = [called |-> TRUE, text |-> text, validator |-> validator,
                result |-> parseRequestBody(text, validator)]
  /\ UNCHANGED <<now, wrapped, paged, hook, limiterVars, slidingVars, errorVars, handlerVars, retryVars, flightVars, skipVars, validateVars>>

\* The texts of a query value of at most n characters, over a sign, two
\* digits, and a letter that is no decimal digit (and that makes the prefix
\* 0x).
RECURSIVE QueryStrings(_)
QueryStrings(n) ==
  IF n = 0 THEN {<<>>}
  ELSE QueryStrings(n - 1)
         \cup {Append(s, c) : s \in {t \in QueryStrings(n - 1) : Len(t) = n - 1},
                              c \in {"-", "0", "2", "x"}}

\* params.page, params.limit: missing from the query string, or its text
QueryValues ==
  {Undefined} \cup {[is |-> "string", chars |-> s] : s \in QueryStrings(MaxQueryLen)}

NaN == [nan |-> TRUE, n |-> 0]
Num(n) == [nan |-> FALSE, n |-> n]

\* the longest prefix of s made of digits
RECURSIVE DigitsPrefix(_)
DigitsPrefix(s) ==
  IF s = <<>> \/ Head(s) \notin {"0", "2"} THEN <<>>
  ELSE <<Head(s)>> \o DigitsPrefix(Tail(s))

\* the number the digits write in the radix
RECURSIVE DigitsNumber(_, _)
DigitsNumber(d, radix) ==
  IF d = <<>> THEN 0
  ELSE DigitsNumber(SubSeq(d, 1, Len(d) - 1), radix) * radix
         + (IF d[Len(d)] = "2" THEN 2 ELSE 0)

\* parseInt(value) with no radix: an optional sign, the prefix 0x choosing
\* radix 16, then the digits up to the first character that is none; NaN
\* when there is no digit, and for undefined
parseInt(value) ==
  IF value = Undefined THEN NaN
  ELSE LET s == value.chars
           negative == s # <<>> /\ Head(s) = "-"
           unsigned == IF negative THEN Tail(s) ELSE s
           hex == Len(unsigned) >= 2 /\ unsigned[1] = "0" /\ unsigned[2] = "x"
           digits == DigitsPrefix(IF hex THEN SubSeq(unsigned, 3, Len(unsigned))
                                  ELSE unsigned)
           number == DigitsNumber(digits, IF hex THEN 16 ELSE 10)
       IN  IF digits = <<>> THEN NaN
           ELSE Num(IF negative THEN -number ELSE number)

\* parsed || fallback: NaN and 0 are falsy
OrElse(parsed_, fallback) ==
  IF parsed_.nan \/ parsed_.n = 0 THEN fallback ELSE parsed_.n

MathMax(a, b) == IF a >= b THEN a ELSE b
MathMin(a, b) == IF a <= b THEN a ELSE b

\* getPaginationParams without the lower clamp of limit
getPaginationParamsNoFloor(pageValue, limitValue, defaultLimit, maxLimit) ==
  LET page == MathMax(1, OrElse(parseInt(pageValue), 1))
      limit == MathMin(OrElse(parseInt(limitValue), defaultLimit), maxLimit)
  IN  [page |-> page, limit |-> limit, offset |-> (page - 1) * limit]

getPaginationParams(pageValue, limitValue, defaultLimit, maxLimit) ==
  LET page == MathMax(1, OrElse(parseInt(pageValue), 1))
      limit == MathMin(MathMax(1, OrElse(parseInt(limitValue), defaultLimit)),
                       maxLimit)
  IN  [page |-> page, limit |-> limit, offset |-> (page - 1) * limit]

NoPaged ==
  [called |-> FALSE, page |-> Undefined, limit |-> Undefined,
   defaultLimit |-> 1, maxLimit |-> 1,
   result |-> [page |-> 0, limit |-> 0, offset |-> 0]]

\* the route calls getPaginationParams
PaginationCall ==
  /\ ~paged.called
  /\ paged' = [paged EXCEPT
                 !.called = TRUE,
                 !.result = getPaginationParams(paged.page, paged.limit,
                                                paged.defaultLimit, paged.maxLimit)]
  /\ UNCHANGED <<now, wrapped, parsed, hook, limiterVars, slidingVars, errorVars, handlerVars, retryVars, flightVars, skipVars, validateVars>>

\* What useSession() returns to a render: the status and the session data.
\* While the session is loading the data is null, or the session fetched
\* before.
UseSessionValues ==
  {[status |-> "loading", data |-> "null"],
   [status |-> "loading", data |-> "session"],
   [status |-> "authenticated", data |-> "session"],
   [status |-> "unauthenticated", data |-> "null"]}

\* useAuth: isAuthenticated = !!session?.user
isAuthenticated(data) == data = "session"

\* the dependencies of the effect of useRequireAuth, in a render
RequireDeps(isLoading, data) ==
  [isLoading |-> isLoading, isAuthenticated |-> isAuthenticated(data)]

\* the component using useRequireAuth before its first render
NoHook ==
  [mounted |-> FALSE, status |-> "loading", data |-> "null",
   isLoading |-> TRUE, setPending |-> FALSE, setTo |-> TRUE,
   authEffect |-> FALSE, requireEffect |-> FALSE, redirectedIn |-> {}]

\* the first render: useState(true), and both effects are scheduled
Mount(session) ==
  /\ ~hook.mounted
  /\ hook' = [hook EXCEPT !.mounted = TRUE,
                          !.status = session.status, !.data = session.data,
                          !.isLoading = TRUE,
                          !.authEffect = TRUE, !.requireEffect = TRUE]
  /\ UNCHANGED <<now, wrapped, parsed, paged, limiterVars, slidingVars, errorVars, handlerVars, retryVars, flightVars, skipVars, validateVars>>

\* a render after the first: with the value useSession returns now and the
\* state set since the last render; an effect is scheduled when one of its
\* dependencies differs from the render before.  The effects of a render run
\* before the next render.
Render(session, isLoading) ==
  /\ hook.mounted /\ ~hook.authEffect /\ ~hook.requireEffect
  /\ hook' = [hook EXCEPT
                !.status = session.status, !.data = session.data,
                !.isLoading = isLoading, !.setPending = FALSE,
                !.authEffect = session.status # hook.status,
                !.requireEffect = RequireDeps(isLoading, session.data)
                                    # RequireDeps(hook.isLoading, hook.data)]
  /\ UNCHANGED <<now, wrapped, parsed, paged, limiterVars, slidingVars, errorVars, handlerVars, retryVars, flightVars, skipVars, validateVars>>

\* the session changes and the component renders again; an update of
\* isLoading that is pending is part of the same render
SessionChanges(session) ==
  /\ session # [status |-> hook.status, data |-> hook.data]
  /\ Render(session, IF hook.setPending THEN hook.setTo ELSE hook.isLoading)

\* setIsLoading made the component render again
StateRender ==
  /\ hook.setPending
  /\ Render([status |-> hook.status, data |-> hook.data], hook.setTo)

\* the effect of useAuth: setIsLoading(status === 'loading'); setting the
\* value the state has schedules no render
AuthEffect ==
  /\ hook.authEffect
  /\ hook' = [hook EXCEPT
                !.authEffect = FALSE,
                !.setPending = (hook.status = "loading") # hook.isLoading,
                !.setTo = (hook.status = "loading")]
  /\ UNCHANGED <<now, wrapped, parsed, paged, limiterVars, slidingVars, errorVars, handlerVars, retryVars, flightVars, skipVars, validateVars>>

\* the effect of useRequireAuth, after the effect of useAuth of the same
\* render: it redirects when the render saw neither loading nor a user
RequireEffect ==
  /\ hook.requireEffect /\ ~hook.authEffect
  /\ hook' = [hook EXCEPT
                !.requireEffect = FALSE,
                !.redirectedIn =
                   IF ~hook.isLoading /\ ~isAuthenticated(hook.data)
                   THEN @ \cup {hook.status} ELSE @]
  /\ UNCHANGED <<now, wrapped, parsed, paged, limiterVars, slidingVars, errorVars, handlerVars, retryVars, flightVars, skipVars, validateVars>>

UtilIdle ==
  wrapped = NoWrapped /\ parsed = NoParsed /\ paged = NoPaged /\ hook = NoHook

\* A limiter as the source constructs the named ones: any window and budget,
\* both skip flags off, the default key generator.
LimiterConfigs ==
  [windowMs : Windows, maxRequests : 1..MaxRequests,
   skipSuccessfulRequests : {FALSE}, skipFailedRequests : {FALSE}]

\* One limiter instance working on the table.
LimiterInit ==
  /\ now = 0
  /\ \E c \in LimiterConfigs : config = [l \in Limiters |-> c]
  /\ store = <<>>
  /\ lastCheck = NoCheck
  /\ window = [k \in Keys |-> NoWindow]
  /\ alone = NoAlone
  /\ unswept = NoUnswept

vars == <<now, limiterVars, slidingVars, errorVars, handlerVars, retryVars, flightVars, skipVars, validateVars, utilVars>>

Init == LimiterInit /\ SlidingIdle /\ ErrorIdle /\ HandlerIdle /\ RetryIdle /\ FlightIdle /\ SkipIdle /\ ValidateIdle /\ UtilIdle

Next ==
  \/ \E request \in LimiterRequests : Check("apiLimiter", request)
  \/ Sweep
  \/ Tick

Spec == Init /\ [][Next]_vars

\* The same limiter with the timer of the periodic sweep: setInterval calls
\* cleanup again and again, so a sweep that stays due is run.
SpecFair == Init /\ [][Next]_vars /\ WF_vars(Sweep)

\* One limiter next to the table that is never swept.
InitSweep == Init

NextSweep ==
  \/ \E request \in LimiterRequests : UnsweptCheck("apiLimiter", request)
  \/ Sweep
  \/ Tick

SpecSweep == InitSweep /\ [][NextSweep]_vars

\* The named limiters apiLimiter, chatLimiter and authLimiter, called for
\* the requests of one client: the budgets keep the order of the source's
\* (100, 60 and 10), and authLimiter has the longer window.
NamedConfig ==
  [l \in Limiters |->
     [windowMs |-> IF l = "authLimiter" THEN (MaxWindow + 1) * Step ELSE MaxWindow * Step,
      maxRequests |-> CASE l = "apiLimiter" -> MaxRequests
                        [] l = "chatLimiter" -> MaxRequests - 1
                        [] OTHER -> 1,
      skipSuccessfulRequests |-> FALSE,
      skipFailedRequests |-> FALSE]]

InitNamed ==
  /\ now = 0
  /\ config = NamedConfig
  /\ store = <<>>
  /\ lastCheck = NoCheck
  /\ window = [k \in Keys |-> NoWindow]
  /\ alone = NoAlone
  /\ unswept = NoUnswept
  /\ SlidingIdle /\ ErrorIdle /\ HandlerIdle /\ RetryIdle /\ FlightIdle /\ SkipIdle /\ ValidateIdle /\ UtilIdle

NextNamed ==
  \/ \E l \in Limiters, request \in HandlerRequests : NamedCheck(l, request)
  \/ Sweep
  \/ Tick

SpecNamed == InitNamed /\ [][NextNamed]_vars

\* One call of withRetry, for every number of attempts and every delay, on
\* an operation that resolves or rejects at each call.
InitRetry ==
  now = 0 /\ LimiterIdle /\ SlidingIdle /\ ErrorIdle /\ HandlerIdle /\ RetryIdle /\ FlightIdle /\ SkipIdle /\ ValidateIdle /\ UtilIdle

NextRetry ==
  \/ \E maxRetries \in 0..MaxAttempts, delay \in Delays : WithRetry(maxRetries, delay)
  \/ \E outcome \in OperationOutcomes : OperationSettles(outcome)
  \/ TimerFires
  \/ RetryTick

SpecRetry == InitRetry /\ [][NextRetry]_vars

\* One limiter with any setting of its two skip flags: requests of two
\* clients are checked and complete later, each with success or failure.
SkipRequests == {[forwarded |-> <<>>, ip |-> c] : c \in Clients}

SkipConfigs ==
  [windowMs : {MaxWindow * Step}, maxRequests : 1..(MaxRequests - 1),
   skipSuccessfulRequests : BOOLEAN, skipFailedRequests : BOOLEAN]

InitSkip ==
  /\ now = 0
  /\ \E c \in SkipConfigs : config = [l \in Limiters |-> c]
  /\ store = <<>>
  /\ lastCheck = NoCheck
  /\ window = [k \in Keys |-> NoWindow]
  /\ alone = NoAlone
  /\ unswept = NoUnswept
  /\ SlidingIdle /\ ErrorIdle /\ HandlerIdle /\ RetryIdle /\ FlightIdle /\ SkipIdle /\ ValidateIdle /\ UtilIdle

NextSkip ==
  \/ \E request \in SkipRequests : SkipCheck(request)
  \/ \E request \in BagToSet(skip.pending), success \in BOOLEAN : Complete(request, success)
  \/ Sweep
  \/ Tick

SpecSkip == InitSkip /\ [][NextSkip]_vars

\* The validators, called with every value, field name and pair of bounds.
InitValidate ==
  /\ now = 0 /\ LimiterIdle /\ SlidingIdle /\ ErrorIdle /\ HandlerIdle
  /\ RetryIdle /\ FlightIdle /\ SkipIdle /\ ValidateIdle /\ UtilIdle

NextValidate ==
  \/ \E value \in Values, fieldName \in FieldNames : ValidateRequired(value, fieldName)
  \/ \E value \in Values, fieldName \in FieldNames, minLength \in Lengths,
        maxLength \in Lengths : ValidateString(value, fieldName, minLength, maxLength)

SpecValidate == InitValidate /\ [][NextValidate]_vars

\* Two clients at a limiter of either class. The two classes share no
\* state (the fixed-window table is the module's store, the lists are a
\* private field of the sliding-window instance), and a behaviour follows the
\* limiter that its first check is made at.
KeysConfig ==
  [windowMs |-> MaxWindow * Step, maxRequests |-> MaxRequests - 1,
   skipSuccessfulRequests |-> TRUE, skipFailedRequests |-> FALSE]

KeysSlidingConfig == [windowMs |-> MaxWindow * Step, maxRequests |-> MaxRequests - 1]

FixedUnused == skip = NoSkip /\ store = <<>>

SlidingUnused == requests = <<>> /\ ~lastSliding.called

InitKeys ==
  /\ now = 0
  /\ config = [l \in Limiters |-> KeysConfig]
  /\ store = <<>>
  /\ lastCheck = NoCheck
  /\ window = [k \in Keys |-> NoWindow]
  /\ alone = NoAlone
  /\ unswept = NoUnswept
  /\ slidingConfig = KeysSlidingConfig
  /\ requests = <<>>
  /\ lastSliding = NoSliding
  /\ admissions = [k \in Keys |-> [t \in Times |-> 0]]
  /\ ErrorIdle /\ HandlerIdle /\ RetryIdle /\ FlightIdle /\ SkipIdle /\ ValidateIdle /\ UtilIdle

NextKeys ==
  \/ \E request \in SkipRequests : SlidingUnused /\ SkipCheck(request)
  \/ \E request \in BagToSet(skip.pending), success \in BOOLEAN : Complete(request, success)
  \/ Sweep
  \/ \E request \in SkipRequests : FixedUnused /\ SlidingCheck(request)
  \/ SlidingCleanup
  \/ Tick

SpecKeys == InitKeys /\ [][NextKeys]_vars

\* The middleware of the named limiters, called for the requests of one
\* client.
RateLimit(l, request) ==
  /\ CheckEffect(l, request)
  /\ LET key == defaultKeyGenerator(request)
         out == CheckOutcome(config[l], cleanup(store, now), key, now)
     IN  resp' = RateLimitResponse(config[l], out, now)
  /\ UNCHANGED <<now, config, alone, unswept, pc, cur, ran, slidingVars, errorVars, retryVars, flightVars, skipVars, validateVars, utilVars>>

NextLimit ==
  \/ \E l \in Limiters, request \in HandlerRequests : RateLimit(l, request)
  \/ Sweep
  \/ Tick

SpecLimit == InitNamed /\ [][NextLimit]_vars

\* A function wrapped by asyncHandler, called again and again.
InitAsync ==
  /\ now = 0 /\ LimiterIdle /\ SlidingIdle /\ ErrorIdle /\ HandlerIdle
  /\ RetryIdle /\ FlightIdle /\ SkipIdle /\ ValidateIdle /\ UtilIdle

NextAsync ==
  \/ \E outcome \in FnOutcomes(now) : AsyncCall(outcome)
  \/ Tick

SpecAsync == InitAsync /\ [][NextAsync]_vars

\* Routes parsing the bodies of their requests.
NextParse == \E text \in BodyTexts, validator \in Validators : ParseCall(text, validator)

SpecParse == InitAsync /\ [][NextParse]_vars

\* A route reading page and limit from the query string of one request.
InitPage ==
  /\ now = 0 /\ LimiterIdle /\ SlidingIdle /\ ErrorIdle /\ HandlerIdle
  /\ RetryIdle /\ FlightIdle /\ SkipIdle /\ ValidateIdle
  /\ wrapped = NoWrapped /\ parsed = NoParsed /\ hook = NoHook
  /\ paged \in [called : {FALSE}, page : QueryValues, limit : QueryValues,
               defaultLimit : -1 .. 3, maxLimit : 1 .. 3,
               result : {NoPaged.result}]

NextPage == PaginationCall

SpecPage == InitPage /\ [][NextPage]_vars

\* A component using useRequireAuth while the session changes.
NextHook ==
  \/ \E session \in UseSessionValues : Mount(session)
  \/ \E session \in UseSessionValues : SessionChanges(session)
  \/ StateRender
  \/ AuthEffect
  \/ RequireEffect

SpecHook == InitAsync /\ [][NextHook]_vars

\* The sliding-window limiter on the list of timestamps of one key.
InitSliding == SlidingInit /\ LimiterIdle /\ ErrorIdle /\ HandlerIdle /\ RetryIdle /\ FlightIdle /\ SkipIdle /\ ValidateIdle /\ UtilIdle

NextSliding ==
  \/ \E request \in SlidingRequests : SlidingCheck(request)
  \/ SlidingCleanup
  \/ Tick

SpecSliding == InitSliding /\ [][NextSliding]_vars

\* The error responder, handed every kind of thrown value.
InitError == now = 0 /\ LimiterIdle /\ SlidingIdle /\ ErrorIdle /\ HandlerIdle /\ RetryIdle /\ FlightIdle /\ SkipIdle /\ ValidateIdle /\ UtilIdle

NextError ==
  \/ /\ errResp = NoResponse
     /\ \E error \in ThrownValues(now) : HandleApiError(error)
  \/ ErrorReturned
  \/ Tick

SpecError == InitError /\ [][NextError]_vars

\* Routes wrapped by createApiHandler, one invocation at a time, with the
\* limiter's table swept in the background.
InitHandler ==
  /\ now = 0
  /\ \E m \in 1..MaxRequests :
       config = [l \in Limiters |->
                  [windowMs |-> MaxWindow * Step, maxRequests |-> m,
                   skipSuccessfulRequests |-> FALSE, skipFailedRequests |-> FALSE]]
  /\ store = <<>>
  /\ lastCheck = NoCheck
  /\ window = [k \in Keys |-> NoWindow]
  /\ alone = NoAlone
  /\ unswept = NoUnswept
  /\ SlidingIdle /\ ErrorIdle /\ HandlerIdle /\ RetryIdle /\ FlightIdle /\ SkipIdle /\ ValidateIdle /\ UtilIdle

NextHandler ==
  \/ \E opts \in HandlerOptions, method \in Methods, request \in HandlerRequests,
        session \in Sessions, random \in RandomParts :
        Receive(opts, method, request, NoContext, session, random)
  \/ ResolveSession
  \/ \E outcome \in HandlerOutcomes(now) : HandlerSettles(outcome)
  \/ Return
  \/ Sweep
  \/ Tick

SpecHandler == InitHandler /\ [][NextHandler]_vars

\* The wrapper called by a route with or without path parameters, for the
\* requests of one client at a limiter with a budget of one.
InitContext ==
  /\ InitHandler
  /\ config["apiLimiter"].maxRequests = 1

NextContext ==
  \/ \E opts \in HandlerOptions, method \in Methods, context \in Contexts,
        session \in Sessions, random \in RandomParts :
        Receive(opts, method, [forwarded |-> <<>>, ip |-> "10.0.0.1"],
                context, session, random)
  \/ ResolveSession
  \/ \E outcome \in HandlerOutcomes(now) : HandlerSettles(outcome)
  \/ Return
  \/ Sweep
  \/ Tick

SpecContext == InitContext /\ [][NextContext]_vars

\* Requests of one client handled at the same time, all checked by one
\* limiter.
InitFlight == InitHandler

NextFlight ==
  \/ \E r \in Flights, request \in HandlerRequests : ReadRecord(r, request)
  \/ \E r \in Flights : WriteRecord(r)
  \/ \E r \in Flights : Finish(r)
  \/ BetweenRuns /\ Sweep
  \/ BetweenRuns /\ Tick

SpecFlight == InitFlight /\ [][NextFlight]_vars

TypeOK ==
  /\ now \in Times
  /\ DOMAIN store \subseteq Keys
  /\ \A k \in DOMAIN store : store[k].count \in 1..MaxRequests

\* C1: once maxRequests checks for a key have been admitted within one
\* window, every further check for that key made while the window's
\* resetTime has not passed is rejected.
C1_RejectedOnceBudgetSpent ==
  (lastCheck.limiter \in Limiters /\ lastCheck.spent) => ~lastCheck.allowed

C1_Witness ==
  /\ lastCheck.limiter \in Limiters
  /\ lastCheck.spent
  /\ lastCheck.wasRejected
  /\ ~lastCheck.allowed

\* C3: the first check for a key made after the key's resetTime has elapsed
\* starts a new window with the count reset to zero: it is admitted, whatever
\* was admitted or rejected in the previous window, it leaves a count of 1 in
\* the table, and the new window ends windowMs after that check.
C3_AdmittedAfterReset ==
  (lastCheck.limiter \in Limiters /\ lastCheck.fresh)
  => /\ lastCheck.allowed
     /\ lastCheck.resetTime = lastCheck.time + config[lastCheck.limiter].windowMs
     /\ lastCheck.remaining = config[lastCheck.limiter].maxRequests - 1
     /\ lastCheck.count = 1

C3_Witness ==
  /\ lastCheck.limiter \in Limiters
  /\ lastCheck.fresh
  /\ lastCheck.wasRejected
  /\ lastCheck.allowed

\* C4: a sliding-window check at time t counts exactly the earlier admissions
\* of the key made at a time ti with t - ti < windowMs; it is admitted iff
\* that number is below maxRequests, and t is recorded iff it is admitted:
\* the timestamps the limiter holds for a key are, within the window, exactly
\* the key's admissions.
StoredInWindow(k) ==
  FilterAfter(IF k \in DOMAIN requests THEN requests[k] ELSE <<>>,
              now - slidingConfig.windowMs)

AdmittedInWindow(k) ==
  TimesFrom(admissions[k],
            IF now - slidingConfig.windowMs + Step > 0
            THEN now - slidingConfig.windowMs + Step ELSE 0,
            now)

C4_SlidingCountsWindow ==
  /\ lastSliding.called =>
       (lastSliding.allowed <=> lastSliding.counted < slidingConfig.maxRequests)
  /\ \A k \in Keys : StoredInWindow(k) = AdmittedInWindow(k)

C4_Witness ==
  /\ lastSliding.called
  /\ ~lastSliding.allowed
  /\ \E k \in Keys : \E t \in Times :
       /\ admissions[k][t] > 0
       /\ now - t >= slidingConfig.windowMs
       /\ StoredInWindow(k) # <<>>

\* C9: handleApiError on an ApplicationError of kind K answers with the status
\* the table gives K, whatever the message and the details, and with K as
\* the code of the body.
TableStatus ==
  [c \in ErrorCode |->
     IF c \in {"UNAUTHORIZED", "SESSION_EXPIRED"} THEN 401
     ELSE IF c = "FORBIDDEN" THEN 403
     ELSE IF c = "RECORD_NOT_FOUND" THEN 404
     ELSE IF c \in {"VALIDATION_ERROR", "INVALID_INPUT", "MISSING_REQUIRED_FIELD"} THEN 400
     ELSE IF c = "DUPLICATE_ENTRY" THEN 409
     ELSE IF c = "API_RATE_LIMITED" THEN 429
     ELSE IF c = "TIMEOUT" THEN 408
     ELSE IF c = "API_UNAVAILABLE" THEN 503
     ELSE 500]

C9_TypedErrorStatus ==
  thrown.class = "ApplicationError"
  => /\ errResp.status = TableStatus[thrown.code]
     /\ errResp.body.error.code = thrown.code

C9_Witness ==
  /\ thrown.class = "ApplicationError"
  /\ thrown.code = "TIMEOUT"
  /\ includes(thrown.message, "relation")
  /\ includes(thrown.message, "does not exist")
  /\ errResp.status = 408

\* C10: every response of handleApiError has the status the table gives the
\* code of its body, also when the code comes from the classification of an
\* untyped error.
C10_StatusMatchesBodyCode ==
  errResp # NoResponse => errResp.status = TableStatus[errResp.body.error.code]

\* ---- the handler wrapper: the claims look at the state in which an
\* invocation has just returned its Response (pc = "done")

MethodAllowed ==
  \/ ~cur.opts.allowedMethods.given
  \/ cur.method \in {cur.opts.allowedMethods.list[i] :
                       i \in DOMAIN cur.opts.allowedMethods.list}

HasIdentity == cur.session \notin {"null", "noUser", "throws"}

\* C2: when the rate limiter configured on createApiHandler admits the
\* request, and the method and the authentication stages pass, the domain
\* handler is called for the request and the Response it returns is the
\* Response of the invocation.
C2_AdmittedRequestReachesHandler ==
  (/\ pc = "done"
   /\ ran.limiter = "allowed"
   /\ MethodAllowed
   /\ (cur.opts.requireAuth => HasIdentity))
  => /\ ran.handler = 1
     /\ ran.outcome.kind = "return" => resp = ran.outcome.value

\* C5: with requireAuth, a request whose session yields no identity is
\* answered 401 UNAUTHORIZED and the domain handler is not called (for a
\* request that the method check lets through and the limiter neither
\* rejects nor fails on).
C5_UnauthenticatedGets401 ==
  (/\ pc = "done"
   /\ cur.opts.requireAuth
   /\ ~HasIdentity
   /\ MethodAllowed
   /\ ran.limiter \notin {"rejected", "raised"})
  => /\ resp.status = 401
     /\ resp.body.error.code = "UNAUTHORIZED"
     /\ ran.handler = 0

\* C6: when the limiter's check rejects the request, the invocation returns
\* 429 with Retry-After and the four X-RateLimit headers, and neither the
\* session lookup nor the domain handler runs.
C6_RejectedGets429 ==
  (pc = "done" /\ ran.limiter = "rejected")
  => /\ resp.status = 429
     /\ {"Retry-After", "X-RateLimit-Limit", "X-RateLimit-Remaining",
         "X-RateLimit-Reset", "X-RateLimit-Window"} \subseteq DOMAIN resp.headers
     /\ ~ran.auth
     /\ ran.handler = 0

C6_Witness ==
  /\ pc = "done"
  /\ ran.limiter = "rejected"
  /\ cur.opts.requireAuth
  /\ ~HasIdentity
  /\ resp.status = 429

\* C7: a request whose method is not in allowedMethods is answered 405
\* METHOD_NOT_ALLOWED with the list of the permitted methods, before any
\* later stage: the limiter is not consulted and its table is as it was, the
\* session is not looked up and the domain handler is not called.
C7_MethodNotAllowedFirst ==
  (pc = "done" /\ ~MethodAllowed)
  => /\ resp.status = 405
     /\ resp.body.error.code = "METHOD_NOT_ALLOWED"
     /\ resp.body.error.details.allowedMethods = cur.opts.allowedMethods.list
     /\ ran.limiter = "no"
     /\ store = ran.tableAtCall
     /\ ~ran.auth
     /\ ran.handler = 0

C7_Witness ==
  /\ pc = "done"
  /\ ~MethodAllowed
  /\ cur.opts.rateLimiter = "apiLimiter"
  /\ cur.opts.requireAuth
  /\ store # <<>>
  /\ resp.status = 405

\* C8: an ApplicationError of kind K thrown by the domain handler reaches the
\* client with its kind: the body's error code is K and the status is the
\* one the table gives K.
C8_TypedErrorKeepsKind ==
  (/\ pc = "done"
   /\ ran.outcome.kind = "throw"
   /\ ran.outcome.value.class = "ApplicationError")
  => /\ resp.status = TableStatus[ran.outcome.value.code]
     /\ resp.body.error.code = ran.outcome.value.code

\* C11: handleApiError classifies an untyped Error by its message, in a fixed
\* order: 'relation' together with 'does not exist' gives DATABASE_ERROR,
\* otherwise 'timeout' or 'ECONNREFUSED' gives NETWORK_ERROR, otherwise
\* INTERNAL_SERVER_ERROR; an ApplicationError keeps its own code whatever
\* its message contains.
ClassifiedCode(message) ==
  IF includes(message, "relation") /\ includes(message, "does not exist")
  THEN "DATABASE_ERROR"
  ELSE IF includes(message, "timeout") \/ includes(message, "ECONNREFUSED")
  THEN "NETWORK_ERROR"
  ELSE "INTERNAL_SERVER_ERROR"

C11_ClassifiedInOrder ==
  errResp # NoResponse
  => /\ thrown.class = "Error"
        => errResp.body.error.code = ClassifiedCode(thrown.message)
     /\ thrown.class = "ApplicationError"
        => errResp.body.error.code = thrown.code

C11_Witness ==
  /\ thrown.class = "Error"
  /\ includes(thrown.message, "relation")
  /\ includes(thrown.message, "does not exist")
  /\ includes(thrown.message, "timeout")
  /\ errResp.body.error.code = "DATABASE_ERROR"

\* C12: every failure response of the wrapped handler (the 405 of the method
\* validation, the 401 of requireAuth, and the response to anything the
\* rate limiter or the domain handler throws that is no Response) carries in its error body's
\* details the request id generated for the invocation.
WrapperFailure ==
  /\ pc = "done"
  /\ \/ resp.status \in {405, 401} /\ ran.handler = 0 /\ ran.limiter \in {"no", "threw"}
     \/ ran.limiter = "raised"
     \/ ran.outcome.kind = "throw"

C12_FailureEchoesRequestId ==
  WrapperFailure
  => /\ "requestId" \in DOMAIN resp.body.error.details
     /\ resp.body.error.details.requestId = cur.requestId

\* C13: the wrapped handler never throws.  Every invocation ends with a
\* Response; a Response thrown by the method validation, by requireAuth or
\* by the domain handler is that Response, with its status and body; and
\* whatever else the domain handler or the rate limiter throws, and also
\* when the session lookup throws, the caller still gets a Response.
IsResponse(r) == r # NoResponse /\ r.status \in 100..599

C13_NeverThrows ==
  pc = "done"
  => /\ IsResponse(resp)
     /\ ran.outcome.kind = "throwResponse" => resp = ran.outcome.value
     /\ ~MethodAllowed => resp = validateMethod(cur.method, cur.opts.allowedMethods.list)
     /\ (ran.auth /\ ran.handler = 0) => resp = requireAuth(cur.session)

C13_Witness ==
  /\ pc = "done"
  /\ cur.session = "throws"
  /\ ran.limiter = "threw"
  /\ ran.outcome.kind = "throw"
  /\ ran.outcome.value = NonError
  /\ resp.status = 500

\* C14: every error response has the same body shape: a top-level error
\* object with code, message and timestamp (details optional).  This is
\* stated of the responses of handleApiError, of the error responses the
\* wrapped handler returns (built by createErrorResponse) and of the 429 of
\* the rate-limit middleware.
ErrorEnvelope(r) ==
  /\ "error" \in DOMAIN r.body
  /\ {"code", "message", "timestamp"} \subseteq DOMAIN r.body.error
  /\ DOMAIN r.body.error \subseteq {"code", "message", "timestamp", "details"}

C14_UniformErrorBody ==
  /\ errResp # NoResponse => ErrorEnvelope(errResp)
  /\ (pc = "done" /\ resp.status >= 400) => ErrorEnvelope(resp)

\* C15: the named limiters enforce separate budgets.  What a named limiter
\* answers a client (admitted or not, and the window's reset time) is what
\* it would answer had no other named limiter been called for that client.
C15_SeparateBudgets ==
  lastCheck.limiter # "none"
  => /\ lastCheck.allowed = alone.allowed
     /\ lastCheck.resetTime = alone.resetTime

\* ---- withRetry: the claims look at the history of the calls of the
\* operation

Settled(n) == retry.calls[n].outcome.kind # "pending"
Failed(n) == retry.calls[n].outcome.kind = "reject"
AllFailed == \A n \in 1..Len(retry.calls) : Failed(n)

\* the message of a failure: that of an Error, or the string thrown
FailureMessage(n) == retry.calls[n].outcome.value.message

\* C16: on an operation that fails at every attempt, withRetry with
\* maxRetries >= 1 calls the operation exactly maxRetries times and then
\* throws an ApplicationError EXTERNAL_API_ERROR whose details.attempts is
\* maxRetries and whose details.lastError is the message of the last
\* failure.
C16_ExhaustedAfterMaxAttempts ==
  (retry.maxRetries >= 1 /\ AllFailed)
  => /\ Len(retry.calls) <= retry.maxRetries
     /\ Len(retry.calls) = retry.maxRetries
        => /\ retry.pc = "raised"
           /\ retry.result.class = "ApplicationError"
           /\ retry.result.code = "EXTERNAL_API_ERROR"
           /\ retry.result.details.attempts = retry.maxRetries
           /\ retry.result.details.lastError = FailureMessage(retry.maxRetries)
     /\ retry.pc = "raised" => Len(retry.calls) = retry.maxRetries

C16_Witness ==
  /\ retry.pc = "raised"
  /\ retry.maxRetries = 3
  /\ Len(retry.calls) = 3
  /\ AllFailed
  /\ FailureMessage(2) # FailureMessage(3)
  /\ retry.result.details.attempts = 3

\* C17: on an operation that fails at its first k - 1 calls and resolves at
\* call k, 1 <= k <= maxRetries, withRetry returns the value of call k after
\* exactly k calls: no call follows the one that resolved.
C17_ReturnsFirstSuccess ==
  /\ \A n \in 1..Len(retry.calls) :
       (Settled(n) /\ ~Failed(n))
       => /\ n = Len(retry.calls)
          /\ n <= retry.maxRetries
          /\ \A i \in 1..(n - 1) : Failed(i)
          /\ retry.pc = "returned"
          /\ retry.result = retry.calls[n].outcome.value
  /\ retry.pc = "returned" => ~Failed(Len(retry.calls))

C17_Witness ==
  /\ retry.pc = "returned"
  /\ retry.maxRetries = 3
  /\ Len(retry.calls) = 3
  /\ Failed(1) /\ Failed(2)
  /\ retry.result = Data

\* C18: between failed attempt n and attempt n + 1 withRetry waits
\* delay * 2^(n-1): attempt n + 1 does not begin before the failure of
\* attempt n plus that wait, the first attempt begins when withRetry is
\* called, and after the failure of the last attempt the error is thrown
\* with no wait.
C18_ExponentialBackoff ==
  /\ \A n \in 1..(Len(retry.calls) - 1) :
       retry.calls[n + 1].start >= retry.calls[n].end + retry.delay * Pow2(n - 1)
  /\ retry.pc = "waiting"
     => retry.wakeAt = retry.calls[retry.attempt].end
                       + retry.delay * Pow2(retry.attempt - 1)
  /\ Len(retry.calls) >= 1 => retry.calls[1].start = retry.calledAt
  /\ (retry.pc = "raised" /\ retry.maxRetries >= 1)
     => retry.settledAt = retry.calls[Len(retry.calls)].end

C18_Witness ==
  /\ retry.pc = "raised"
  /\ Len(retry.calls) = 3
  /\ retry.calls[2].start = retry.calls[1].end + retry.delay
  /\ retry.calls[3].start = retry.calls[2].end + 2 * retry.delay
  /\ retry.settledAt = retry.calls[3].end

\* C19: check returns remaining = max(0, maxRequests - count - 1), count
\* being the key's count before the increment.  On an admitted check this
\* is the number of checks the key's window will still admit, on a rejected
\* check it is 0, and it is never negative.
BudgetLeft(l, key) == config[l].maxRequests - window[key].admitted

C19_RemainingIsBudgetLeft ==
  lastCheck.limiter # "none"
  => /\ lastCheck.remaining >= 0
     /\ lastCheck.allowed
        => /\ lastCheck.remaining
                = config[lastCheck.limiter].maxRequests - (lastCheck.count - 1) - 1
           /\ lastCheck.remaining = BudgetLeft(lastCheck.limiter, lastCheck.key)
     /\ ~lastCheck.allowed
        => /\ lastCheck.remaining = 0
           /\ BudgetLeft(lastCheck.limiter, lastCheck.key) = 0

C19_Witness ==
  /\ lastCheck.limiter # "none"
  /\ lastCheck.allowed
  /\ config[lastCheck.limiter].maxRequests = 3
  /\ lastCheck.count = 2
  /\ lastCheck.remaining = 1

\* ---- requests in flight

\* C20 as stated: requests for one key handled at the same time can
\* interleave between a check's read of the record and its
\* increment-and-write (and so more than maxRequests can be admitted in one
\* window): whenever a check has read the record and not yet written it,
\* the check of another request can run.
C20_CheckCanBeInterleaved ==
  \A r \in Flights :
    flight[r].pc = "read"
    => \E other \in Flights \ {r} :
         \/ \E request \in HandlerRequests : ENABLED ReadRecord(other, request)
         \/ ENABLED WriteRecord(other)

\* C20 as amended: check(request) runs from its read of the record to its
\* write without suspension, so no other check runs in between, and of the
\* requests of one key handled at the same time at most maxRequests are
\* admitted within one window.
C20_ChecksDoNotInterleave ==
  /\ \A k \in Keys : window[k].admitted <= config["apiLimiter"].maxRequests
  /\ \A r, other \in Flights :
       (flight[r].pc = "read" /\ flight[other].pc = "read") => r = other
  /\ \A r \in Flights :
       flight[r].pc = "read"
       => flight[r].seen = [k \in DOMAIN store \cap {flight[r].key} |-> store[k]]

C20_Witness ==
  \E r, other \in Flights :
    /\ r # other
    /\ flight[r].pc = "checked" /\ flight[r].allowed
    /\ flight[other].pc = "checked" /\ ~flight[other].allowed
    /\ flight[r].key = flight[other].key
    /\ flight[r].time = flight[other].time
    /\ window[flight[r].key].admitted = config["apiLimiter"].maxRequests

\* ---- updateCount and the skip flags

\* the key's stored record is that of the window the history describes
TallyCurrent(k) == k \in DOMAIN store /\ store[k].resetTime = skip.tally[k].resetTime

\* C21 as stated: with a skip flag on, updateCount for a completed request
\* of the excluded kind takes off exactly that request's own increment:
\* after any interleaving of checks and completions, the stored count of a
\* key's current window is the number of requests the window admitted that
\* were not excluded, also when a request is admitted in one window and
\* completes in a later one.
C21_CountIsAdmittedNotExcluded ==
  \A k \in Keys :
    TallyCurrent(k)
    => store[k].count = skip.tally[k].admitted - skip.tally[k].excluded

\* C21 as amended: updateCount for a completed request of the excluded kind
\* takes one off the count of the record the key has at that time.  As long
\* as every excluded request completes while the record of the window that
\* admitted it is still the key's record, the stored count of the window is
\* the number of requests it admitted that were not excluded.
C21_CountWithinOwnWindow ==
  \A k \in Keys :
    (TallyCurrent(k) /\ ~skip.tally[k].stray)
    => store[k].count = skip.tally[k].admitted - skip.tally[k].excluded

C21_Witness ==
  \E k \in Keys :
    /\ TallyCurrent(k)
    /\ ~skip.tally[k].stray
    /\ skip.tally[k].excluded >= 1
    /\ skip.tally[k].admitted > config["apiLimiter"].maxRequests
    /\ store[k].count = skip.tally[k].admitted - skip.tally[k].excluded

\* C22: the sweep removes exactly the records whose resetTime is earlier
\* than the current time: every record whose window has not elapsed
\* (resetTime >= now) is in the table afterwards, with the same count and
\* resetTime, and no other record is.
C22_SweepRemovesExactlyExpired ==
  [][Sweep
     => /\ DOMAIN store' = {k \in DOMAIN store : ~(store[k].resetTime < now)}
        /\ \A k \in DOMAIN store' : store'[k] = store[k]]_vars

\* the last check was for key A, whose window has elapsed since and whose
\* record the sweep has removed, while the record of another key, whose
\* window ends now or later, is still there
C22_Witness ==
  \E a, b \in Keys :
    /\ a # b
    /\ lastCheck.key = a
    /\ window[a].open /\ window[a].resetTime < now
    /\ a \notin DOMAIN store
    /\ b \in DOMAIN store
    /\ store[b].resetTime = now
    /\ store[b].count = window[b].admitted

\* ---- validators

Threw == validation.threw.class = "ApplicationError"
Given(bound) == bound # Undefined

\* C23: validators.required throws MISSING_REQUIRED_FIELD exactly when the
\* value is undefined, null or the empty string.  validators.string throws
\* INVALID_INPUT for a value that is no string, VALIDATION_ERROR for a string
\* shorter than minLength or longer than maxLength (a string of exactly
\* minLength or maxLength characters passes, and a bound that is not given
\* is not checked), and returns otherwise.  Every error thrown has the
\* field's name in details.field.
C23_ValidatorsRaise ==
  /\ validation.validator = "required"
     => /\ Threw <=> \/ validation.value.is \in {"undefined", "null"}
                     \/ (validation.value.is = "string" /\ Len(validation.value.chars) = 0)
        /\ Threw => validation.threw.code = "MISSING_REQUIRED_FIELD"
  /\ validation.validator = "string"
     => IF validation.value.is # "string"
        THEN Threw /\ validation.threw.code = "INVALID_INPUT"
        ELSE LET n == Len(validation.value.chars)
                 short == Given(validation.minLength) /\ n < validation.minLength.n
                 long == Given(validation.maxLength) /\ n > validation.maxLength.n
             IN  /\ Threw <=> (short \/ long)
                 /\ Threw => validation.threw.code = "VALIDATION_ERROR"
  /\ Threw => validation.threw.details.field = validation.fieldName

C23_Witness ==
  /\ validation.validator = "string"
  /\ validation.value.is = "string"
  /\ Given(validation.minLength)
  /\ Len(validation.value.chars) = validation.minLength.n
  /\ Len(validation.value.chars) >= 1
  /\ ~Given(validation.maxLength)
  /\ ~Threw

\* ---- the fixed-window limiter, step by step

\* the count a check finds for key k: that of the key's record, or 0 when
\* there is none or its resetTime has passed
CountFound(k) ==
  IF k \in DOMAIN store /\ ~(store[k].resetTime < now) THEN store[k].count ELSE 0

\* C24: check adds exactly 1 to the key's count when it admits and nothing
\* when it rejects: a rejected check leaves the key's stored count and
\* resetTime as they were, so that rejected requests neither push the count
\* above maxRequests nor move the window's end.
C24_CountMovesOnlyOnAdmission ==
  [][lastCheck' # lastCheck
     => LET k == lastCheck'.key
        IN  /\ lastCheck'.allowed
               => /\ k \in DOMAIN store'
                  /\ store'[k].count = CountFound(k) + 1
            /\ ~lastCheck'.allowed
               => /\ k \in DOMAIN store /\ k \in DOMAIN store'
                  /\ store'[k] = store[k]
            /\ store'[k].count <= config[lastCheck'.limiter].maxRequests]_vars

C24_Witness ==
  /\ lastCheck.limiter # "none"
  /\ ~lastCheck.allowed
  /\ lastCheck.wasRejected
  /\ lastCheck.key \in DOMAIN store
  /\ store[lastCheck.key].count = config[lastCheck.limiter].maxRequests
  /\ store[lastCheck.key].resetTime = window[lastCheck.key].resetTime
  /\ lastCheck.time = store[lastCheck.key].resetTime

\* C25: in the table of one fixed-window limiter with maxRequests >= 1,
\* under any sequence of check, updateCount and sweep at non-decreasing
\* times, every stored record has an integer count between 0 and
\* maxRequests, and a count of at least 1 as long as updateCount has not
\* been called.
C25_CountWithinBudget ==
  \A k \in DOMAIN store :
    /\ store[k].count \in 0..config["apiLimiter"].maxRequests
    /\ ~skip.updated => store[k].count >= 1

C25_Witness ==
  \E a, b \in DOMAIN store :
    /\ skip.updated
    /\ store[a].count = 0
    /\ store[b].count = config["apiLimiter"].maxRequests

\* C26: the sweep is invisible to admission decisions. Every check returns
\* the allowed, remaining and resetTime that the same check returns on the
\* table from which no sweep ever removed a record, whatever sweeps ran
\* before it: a record whose resetTime has passed counts as an absent one.
C26_SweepInvisibleToCheck ==
  lastCheck.limiter # "none"
  => /\ lastCheck.allowed = unswept.allowed
     /\ lastCheck.remaining = unswept.remaining
     /\ lastCheck.resetTime = unswept.resetTime

\* a check that opened a new window for its key, made when a sweep had
\* removed records that the table never swept still holds
C26_Witness ==
  /\ lastCheck.limiter # "none"
  /\ lastCheck.fresh
  /\ lastCheck.key \in DOMAIN unswept.table
  /\ \E k \in DOMAIN unswept.table : k # lastCheck.key /\ k \notin DOMAIN store

\* C27: every record whose window has elapsed is eventually removed from the
\* table, even if its key sends no other request: with the periodic sweep
\* run whenever it stays due, a record whose resetTime has passed does not
\* stay in the table forever.
Expired(k) == k \in DOMAIN store /\ store[k].resetTime < now

C27_ExpiredEventuallyRemoved ==
  \A k \in Keys : Expired(k) ~> ~Expired(k)

\* no record is left in the table, every key that was admitted has had its
\* window elapse, and the last check of all was made within the window of
\* its key: the sweep removed that record, not a later check
C27_Witness ==
  /\ store = <<>>
  /\ lastCheck.limiter # "none"
  /\ lastCheck.time <= window[lastCheck.key].resetTime
  /\ \A k \in Keys : window[k].open => window[k].resetTime < now
  /\ \A k \in Keys : window[k].open

\* C29: a fixed window is anchored at its opening check. Every check for a
\* key, from the one that opens a window until the window's resetTime,
\* returns the resetTime of that window, the time of the opening check plus
\* windowMs; the admitted and rejected checks in between do not move it, in
\* the answer or in the stored record.
C29_WindowAnchoredAtOpening ==
  /\ lastCheck.limiter # "none"
     => LET w == window[lastCheck.key]
        IN  /\ w.open
            /\ lastCheck.resetTime = w.resetTime
            /\ lastCheck.time <= w.resetTime
            /\ lastCheck.fresh => w.resetTime = lastCheck.time + config[lastCheck.limiter].windowMs
  /\ \A k \in DOMAIN store :
       store[k].resetTime = window[k].resetTime

\* a check rejected at the last instant of a window of two steps, which
\* other checks of the key were admitted in after the opening one
C29_Witness ==
  /\ lastCheck.limiter # "none"
  /\ ~lastCheck.allowed
  /\ lastCheck.time = lastCheck.resetTime
  /\ config[lastCheck.limiter].windowMs > Step
  /\ window[lastCheck.key].admitted >= 2

\* C30: the sliding-window limiter admits, for every key, at most
\* maxRequests checks within any half-open interval of time of length
\* windowMs, and a rejected check leaves the stored lists as they were: it
\* records no timestamp.
AdmittedWithin(k, from) ==
  SumOver(admissions[k],
          {t \in Times : from <= t /\ t < from + slidingConfig.windowMs})

C30_SlidingAdmitsAtMostBudget ==
  /\ [](\A k \in Keys : \A from \in Times :
          AdmittedWithin(k, from) <= slidingConfig.maxRequests)
  /\ [][(lastSliding' # lastSliding /\ ~lastSliding'.allowed)
          => requests' = requests]_vars

\* a key was admitted at a time and again one windowMs later, the interval
\* from the first time holds the whole budget, and the last check, made at
\* the later of the two times, was rejected with the budget in the list
C30_Witness ==
  \E k \in Keys : \E from \in Times :
    /\ from + slidingConfig.windowMs \in Times
    /\ admissions[k][from] > 0
    /\ admissions[k][from + slidingConfig.windowMs] > 0
    /\ AdmittedWithin(k, from) = slidingConfig.maxRequests
    /\ lastSliding.called /\ ~lastSliding.allowed /\ lastSliding.key = k
    /\ lastSliding.time = from + slidingConfig.windowMs
    /\ k \in DOMAIN requests
    /\ Len(requests[k]) = slidingConfig.maxRequests

\* C28: within one limiter the keys are independent. A step of check or of
\* updateCount for a key A leaves the record of every other key B whose
\* resetTime has not passed as it was, a step of the sliding-window check for
\* A leaves B's list as it was, and the answer of a check for B at the
\* current or any later time is the same after the step as before it.
FixedActs(a) ==
  \E e \in BagToSet(skip.pending) \cup BagToSet(skip'.pending) :
    /\ e.key = a
    /\ CopiesIn(e, skip.pending) # CopiesIn(e, skip'.pending)

SlidingActs(a) == lastSliding' # lastSliding /\ lastSliding'.key = a

Answer(out) == [allowed |-> out.allowed, remaining |-> out.remaining]

FixedAnswer(s, b, t) ==
  LET out == CheckOutcome(config["apiLimiter"], cleanup(s, t), b, t)
  IN  [allowed |-> out.allowed, remaining |-> out.remaining,
       resetTime |-> out.resetTime]

FixedFrame(b) ==
  /\ (b \in DOMAIN store /\ ~(store[b].resetTime < now))
       => (b \in DOMAIN store' /\ store'[b] = store[b])
  /\ \A t \in Times :
       t >= now => FixedAnswer(store', b, t) = FixedAnswer(store, b, t)

SlidingFrame(b) ==
  /\ b \in DOMAIN requests => (b \in DOMAIN requests' /\ requests'[b] = requests[b])
  /\ b \notin DOMAIN requests => b \notin DOMAIN requests'
  /\ \A t \in Times :
       t >= now => Answer(SlidingOutcome(slidingConfig, requests', b, t))
                     = Answer(SlidingOutcome(slidingConfig, requests, b, t))

C28_KeysIndependent ==
  [][\A a \in Keys :
       (FixedActs(a) \/ SlidingActs(a))
         => \A b \in Keys \ {a} : FixedFrame(b) /\ SlidingFrame(b)]_vars

\* both keys have a record whose resetTime has not passed, opened at
\* different times; updateCount has taken key A's only admission off its
\* count, and the count of key B is the budget
C28_Witness ==
  \E a, b \in Keys :
    /\ a # b
    /\ a \in DOMAIN store /\ b \in DOMAIN store
    /\ store[a].resetTime >= now /\ store[b].resetTime >= now
    /\ store[a].resetTime # store[b].resetTime
    /\ skip.tally[a].excluded >= 1
    /\ store[a].count = 0
    /\ store[b].count = config["apiLimiter"].maxRequests

\* C31: on every 429 of the rate-limit middleware X-RateLimit-Remaining is
\* 0, X-RateLimit-Limit is the limiter's maxRequests, and Retry-After is a
\* whole number of seconds from 0 to the limiter's own window,
\* ceil(windowMs / 1000).
C31_RetryAfterWithinOwnWindow ==
  (lastCheck.limiter # "none" /\ resp.status = 429)
  => LET cfg == config[lastCheck.limiter]
     IN  /\ resp.headers["X-RateLimit-Remaining"] = 0
         /\ resp.headers["X-RateLimit-Limit"] = cfg.maxRequests
         /\ resp.headers["Retry-After"] >= 0
         /\ resp.headers["Retry-After"] <= CeilDiv(cfg.windowMs, MsPerSecond)

\* C32: the rate-limit middleware fails open.  When the limiter's check
\* throws, the middleware returns null and the request goes on to the
\* session lookup and, unless requireAuth refuses it, to the domain handler;
\* the invocation answers no 429, and a 500 only when the domain handler
\* itself threw.
C32_LimiterFailsOpen ==
  /\ ran.limiter = "threw" => pc \in {"auth", "handler", "done"}
  /\ (pc = "done" /\ ran.limiter = "threw")
     => /\ ran.auth
        /\ resp.status # 429
        /\ IF cur.opts.requireAuth /\ ~HasIdentity
           THEN resp.status = 401 /\ ran.handler = 0
           ELSE /\ ran.handler = 1
                /\ ran.outcome.kind = "return" => resp = ran.outcome.value
                /\ resp.status = 500 => ran.outcome.kind = "throw"

\* the check threw and the request, which has an identity and requires
\* one, got the Response of the domain handler
C32_Witness ==
  /\ pc = "done"
  /\ ran.limiter = "threw"
  /\ cur.opts.requireAuth
  /\ HasIdentity
  /\ ran.handler = 1
  /\ ran.outcome.kind = "return"
  /\ resp.status = 200

\* C33: for every maxRetries, 0 included, withRetry calls the operation at
\* least once, and what it throws when it fails is an ApplicationError with
\* code EXTERNAL_API_ERROR that carries the number of attempts and the last
\* failure, never another kind of value.
C33_AlwaysCallsAndRaisesTyped ==
  /\ retry.pc # "idle" => Len(retry.calls) >= 1
  /\ retry.pc = "raised"
     => /\ "class" \in DOMAIN retry.result
        /\ retry.result.class = "ApplicationError"
        /\ retry.result.code = "EXTERNAL_API_ERROR"
        /\ retry.result.details.attempts = retry.maxRetries
        /\ Len(retry.calls) >= 1
        /\ retry.result.details.lastError = FailureMessage(Len(retry.calls))

\* C34: identity is resolved for every request that passes the method and
\* the rate-limit stage, also when requireAuth is false, and the domain
\* handler is then called exactly once, with the resolved identity (null
\* when there is none) and the path parameters of the incoming context.
C34_IdentityAlwaysResolved ==
  (/\ pc = "done"
   /\ MethodAllowed
   /\ ran.limiter \notin {"rejected", "raised"}
   /\ ~cur.opts.requireAuth)
  => /\ ran.auth
     /\ ran.handler = 1
     /\ ran.user = getAuthenticatedUser(cur.session)
     /\ ran.params = cur.context.params

\* C35: when the session lookup itself throws, the identity is none and no
\* error comes of it: with requireAuth the invocation answers 401
\* UNAUTHORIZED, not 500, and the domain handler is not called; without
\* requireAuth the domain handler is called with a null user.
C35_LookupFailureIsNoIdentity ==
  (pc = "done" /\ ran.auth /\ cur.session = "throws")
  => IF cur.opts.requireAuth
     THEN /\ resp.status = 401
          /\ resp.body.error.code = "UNAUTHORIZED"
          /\ ran.handler = 0
     ELSE /\ ran.handler = 1
          /\ ran.user = Null
          /\ ran.outcome.kind = "return" => resp = ran.outcome.value

\* the lookup threw for a request through a route with path parameters and
\* requireAuth, which got 401
C35_Witness ==
  /\ pc = "done"
  /\ ran.auth
  /\ cur.session = "throws"
  /\ cur.opts.requireAuth
  /\ cur.context.params # Undefined
  /\ resp.status = 401
  /\ ran.handler = 0

\* C36: asyncHandler returns the result of the wrapped function unchanged,
\* rethrows an ApplicationError unchanged, turns every other failure into an
\* ApplicationError INTERNAL_SERVER_ERROR with the original message, and
\* fails whenever the wrapped function fails.
C36_AsyncHandlerKeepsMessage ==
  wrapped.called
  => /\ wrapped.outcome.kind = "resolve"
        => wrapped.result = [kind |-> "return", value |-> wrapped.outcome.value]
     /\ wrapped.outcome.kind = "reject"
        => /\ wrapped.result.kind = "throw"
           /\ IF wrapped.outcome.value.class = "ApplicationError"
              THEN wrapped.result.value = wrapped.outcome.value
              ELSE /\ wrapped.result.value.class = "ApplicationError"
                   /\ wrapped.result.value.code = "INTERNAL_SERVER_ERROR"
                   /\ wrapped.result.value.message = wrapped.outcome.value.message

\* C36, amended: the message of the ApplicationError made for a failure that
\* is no ApplicationError is the original message when an Error was thrown,
\* and 'Unknown error occurred' when a value that is no Error was thrown.
C36_AsyncHandlerKeepsErrorMessage ==
  wrapped.called
  => /\ wrapped.outcome.kind = "resolve"
        => wrapped.result = [kind |-> "return", value |-> wrapped.outcome.value]
     /\ wrapped.outcome.kind = "reject"
        => /\ wrapped.result.kind = "throw"
           /\ IF wrapped.outcome.value.class = "ApplicationError"
              THEN wrapped.result.value = wrapped.outcome.value
              ELSE /\ wrapped.result.value.class = "ApplicationError"
                   /\ wrapped.result.value.code = "INTERNAL_SERVER_ERROR"
                   /\ wrapped.result.value.timestamp = wrapped.time
                   /\ wrapped.result.value.message =
                        IF wrapped.outcome.value.class = "Error"
                        THEN wrapped.outcome.value.message
                        ELSE UnknownError

\* the wrapped function threw a string, and the wrapper threw an
\* ApplicationError that does not carry it
C36_Witness ==
  /\ wrapped.called
  /\ wrapped.outcome.kind = "reject"
  /\ wrapped.outcome.value.class = "other"
  /\ wrapped.outcome.value.message = <<"failed">>
  /\ wrapped.result.kind = "throw"
  /\ wrapped.result.value.message = UnknownError

\* C37: parseRequestBody returns the parsed body when the JSON parses and the
\* validator, if given, accepts it; it fails with 'Invalid request body
\* format' when the JSON parses but the validator rejects it, and with
\* 'Invalid JSON in request body' only when the body is not parseable JSON.
C37_ParseFailureNamesItsCause ==
  parsed.called
  => LET body == requestJson(parsed.text)
         accepted == parsed.validator = NoValidator
                       \/ Accepts(parsed.validator, body.value)
     IN  /\ body.ok /\ accepted
            => parsed.result = [kind |-> "return", value |-> body.value]
         /\ body.ok /\ ~accepted
            => parsed.result = [kind |-> "throw", value |-> Error(InvalidFormat)]
         /\ ~body.ok
            => parsed.result = [kind |-> "throw", value |-> Error(InvalidJson)]
         /\ parsed.result = [kind |-> "throw", value |-> Error(InvalidJson)]
            => ~body.ok

\* the limit value of the call is missing, has no leading number, or is zero
LimitAbsent == parseInt(paged.limit).nan \/ parseInt(paged.limit).n = 0

\* C39: getPaginationParams returns, for every page and limit query value
\* and maxLimit >= 1, page >= 1, 1 <= limit <= maxLimit and
\* offset = (page - 1) * limit >= 0; a missing, non-numeric or zero limit
\* yields min(defaultLimit, maxLimit).
C39_PaginationInRange ==
  paged.called /\ paged.maxLimit >= 1
  => /\ paged.result.page >= 1
     /\ paged.result.limit >= 1 /\ paged.result.limit <= paged.maxLimit
     /\ paged.result.offset = (paged.result.page - 1) * paged.result.limit
     /\ paged.result.offset >= 0
     /\ LimitAbsent
        => paged.result.limit = MathMin(paged.defaultLimit, paged.maxLimit)

\* C39, amended: a missing, non-numeric or zero limit yields
\* min(max(1, defaultLimit), maxLimit).
C39_PaginationInRangeFlooredDefault ==
  paged.called /\ paged.maxLimit >= 1
  => /\ paged.result.page >= 1
     /\ paged.result.limit >= 1 /\ paged.result.limit <= paged.maxLimit
     /\ paged.result.offset = (paged.result.page - 1) * paged.result.limit
     /\ paged.result.offset >= 0
     /\ LimitAbsent
        => paged.result.limit
             = MathMin(MathMax(1, paged.defaultLimit), paged.maxLimit)

\* a call with a negative page, a limit of zero and a defaultLimit of zero
\* was answered with page 1 and limit 1
C39_Witness ==
  /\ paged.called
  /\ parseInt(paged.page) = Num(-2)
  /\ parseInt(paged.limit) = Num(0)
  /\ paged.defaultLimit = 0
  /\ paged.maxLimit = 3
  /\ paged.result = [page |-> 1, limit |-> 1, offset |-> 0]

\* C38: useRequireAuth issues the redirect to /signin only in a state where
\* the session status is 'unauthenticated': whatever the session-status
\* changes, renders and effects, no redirect is issued while the status is
\* 'loading' or 'authenticated'.
C38_RedirectOnlyWhenUnauthenticated ==
  hook.redirectedIn \subseteq {"unauthenticated"}

====
